---- MODULE Spec2Model ----
(***************************************************************************)
(* Todo chatbot backend (Phase III): the chat turn, the agent tool         *)
(* orchestration loop, the MCP tool registry over the task store, the      *)
(* rule-based fallback responder and the conversation store.               *)
(*                                                                         *)
(* Text is a sequence of one-character strings wherever the program        *)
(* inspects it (keyword tests, regular expressions, error texts).  Reply   *)
(* templates that are never inspected are kept as one string per literal   *)
(* fragment.  An optional value is a sequence of length 0 (None) or 1.     *)
(***************************************************************************)
EXTENDS Integers, Sequences, FiniteSets, TLC

(***************************************************************************)
(* Bounds of the model.                                                    *)
(***************************************************************************)
MaxSteps == 6
MaxTasks == 2
MaxCallsPerStep == 2
MaxFallbackCalls == 3
MaxConversations == 1
MaxMessages == 2
MaxListed == 2
MaxAppended == 2
MaxTodoCalls == 4
MaxFlightSteps == 10

(***************************************************************************)
(* Program constants.                                                      *)
(***************************************************************************)
MAX_ITERATIONS == 5
HISTORY_LIMIT == 50
TITLE_MIN_LENGTH == 1
TITLE_MAX_LENGTH == 200

Users == {"u1", "u2"}

None == << >>

EmptyDict == [k \in {} |-> 0]
Some(x) == << x >>

\* a local variable: F applied to a value that is computed once
Let(value, F(_)) == F(value)

(***************************************************************************)
(* Python str operations.                                                  *)
(***************************************************************************)
UPPER ==
    << "A", "B", "C", "D", "E", "F", "G", "H", "I", "J", "K", "L", "M",
       "N", "O", "P", "Q", "R", "S", "T", "U", "V", "W", "X", "Y", "Z" >>
LOWER ==
    << "a", "b", "c", "d", "e", "f", "g", "h", "i", "j", "k", "l", "m",
       "n", "o", "p", "q", "r", "s", "t", "u", "v", "w", "x", "y", "z" >>

lower_char(c) ==
    IF \E i \in 1..26 : UPPER[i] = c
    THEN LOWER[CHOOSE i \in 1..26 : UPPER[i] = c]
    ELSE c

lower(s) == [i \in 1..Len(s) |-> lower_char(s[i])]

\* s[i:].startswith(t), 1-based
StartsAt(s, t, i) ==
    /\ i >= 1
    /\ i + Len(t) - 1 <= Len(s)
    /\ SubSeq(s, i, i + Len(t) - 1) = t

\* Python `t in s`
contains(s, t) == \E i \in 1..(Len(s) + 1) : StartsAt(s, t, i)

DIGITS == << "0", "1", "2", "3", "4", "5", "6", "7", "8", "9" >>

IsDigit(c) == \E i \in 1..10 : DIGITS[i] = c

DigitVal(c) == (CHOOSE i \in 1..10 : DIGITS[i] = c) - 1

\* str(n) for a non-negative int
RECURSIVE int_str(_)
int_str(n) ==
    IF n < 10 THEN << DIGITS[n + 1] >>
    ELSE int_str(n \div 10) \o << DIGITS[(n % 10) + 1] >>

\* int(s) for a string of decimal digits
RECURSIVE int_of(_)
int_of(s) ==
    IF s = << >> THEN 0
    ELSE 10 * int_of(SubSeq(s, 1, Len(s) - 1)) + DigitVal(s[Len(s)])

IsSpace(c) == c = " "

RECURSIVE lstrip(_)
lstrip(s) ==
    IF s # << >> /\ IsSpace(Head(s)) THEN lstrip(Tail(s)) ELSE s

RECURSIVE rstrip(_)
rstrip(s) ==
    IF s # << >> /\ IsSpace(s[Len(s)])
    THEN rstrip(SubSeq(s, 1, Len(s) - 1))
    ELSE s

strip(s) == rstrip(lstrip(s))

(***************************************************************************)
(* Text literals of the program.                                           *)
(***************************************************************************)
kw_quota == <<"q", "u", "o", "t", "a">>
kw_rate == <<"r", "a", "t", "e">>
kw_429 == <<"4", "2", "9">>
kw_not_found == <<"n", "o", "t", " ", "f", "o", "u", "n", "d">>
txt_unknown_tool == <<"U", "n", "k", "n", "o", "w", "n", " ", "t", "o", "o", "l", ":", " ">>
txt_task == <<"T", "a", "s", "k", " ">>
txt_not_found == <<" ", "n", "o", "t", " ", "f", "o", "u", "n", "d">>
txt_no_api_key == <<"O", "P", "E", "N", "A", "I", "_", "A", "P", "I", "_", "K", "E", "Y", " ", "e", "n", "v", "i", "r", "o", "n", "m", "e", "n", "t", " ", "v", "a", "r", "i", "a", "b", "l", "e", " ", "i", "s", " ", "n", "o", "t", " ", "s", "e", "t">>
txt_json_error == <<"E", "x", "p", "e", "c", "t", "i", "n", "g", " ", "v", "a", "l", "u", "e", ":", " ", "l", "i", "n", "e", " ", "1", " ", "c", "o", "l", "u", "m", "n", " ", "1", " ", "(", "c", "h", "a", "r", " ", "0", ")">>
txt_run_unexpected == <<".", "r", "u", "n", "(", ")", " ", "g", "o", "t", " ", "a", "n", " ", "u", "n", "e", "x", "p", "e", "c", "t", "e", "d", " ", "k", "e", "y", "w", "o", "r", "d", " ", "a", "r", "g", "u", "m", "e", "n", "t", " ", "'">>
txt_run_missing == <<".", "r", "u", "n", "(", ")", " ", "m", "i", "s", "s", "i", "n", "g", " ", "1", " ", "r", "e", "q", "u", "i", "r", "e", "d", " ", "p", "o", "s", "i", "t", "i", "o", "n", "a", "l", " ", "a", "r", "g", "u", "m", "e", "n", "t", ":", " ", "'">>
txt_quote == <<"'">>
txt_update_fields == <<"A", "t", " ", "l", "e", "a", "s", "t", " ", "o", "n", "e", " ", "o", "f", " ", "t", "i", "t", "l", "e", " ", "o", "r", " ", "d", "e", "s", "c", "r", "i", "p", "t", "i", "o", "n", " ", "m", "u", "s", "t", " ", "b", "e", " ", "p", "r", "o", "v", "i", "d", "e", "d">>
txt_invalid_user == <<"I", "n", "v", "a", "l", "i", "d", " ", "u", "s", "e", "r", "_", "i", "d", " ", "f", "o", "r", "m", "a", "t", ":", " ">>
txt_conversation == <<"C", "o", "n", "v", "e", "r", "s", "a", "t", "i", "o", "n", " ">>
txt_conversation_not_found == <<" ", "n", "o", "t", " ", "f", "o", "u", "n", "d", " ", "o", "r", " ", "d", "o", "e", "s", "n", "'", "t", " ", "b", "e", "l", "o", "n", "g", " ", "t", "o", " ", "u", "s", "e", "r">>

\* str(e) of the exception the database driver raises on a lost connection
txt_connection_lost == << "server closed the connection unexpectedly" >>

\* str(name) of the identifiers that reach an error text
Chars ==
    [ add_task |-> <<"a", "d", "d", "_", "t", "a", "s", "k">>,
      list_tasks |-> <<"l", "i", "s", "t", "_", "t", "a", "s", "k", "s">>,
      complete_task |-> <<"c", "o", "m", "p", "l", "e", "t", "e", "_", "t", "a", "s", "k">>,
      delete_task |-> <<"d", "e", "l", "e", "t", "e", "_", "t", "a", "s", "k">>,
      update_task |-> <<"u", "p", "d", "a", "t", "e", "_", "t", "a", "s", "k">>,
      rate_task |-> <<"r", "a", "t", "e", "_", "t", "a", "s", "k">>,
      undo_task |-> <<"u", "n", "d", "o", "_", "t", "a", "s", "k">>,
      AddTaskTool |-> <<"A", "d", "d", "T", "a", "s", "k", "T", "o", "o", "l">>,
      ListTasksTool |-> <<"L", "i", "s", "t", "T", "a", "s", "k", "s", "T", "o", "o", "l">>,
      CompleteTaskTool |-> <<"C", "o", "m", "p", "l", "e", "t", "e", "T", "a", "s", "k", "T", "o", "o", "l">>,
      DeleteTaskTool |-> <<"D", "e", "l", "e", "t", "e", "T", "a", "s", "k", "T", "o", "o", "l">>,
      UpdateTaskTool |-> <<"U", "p", "d", "a", "t", "e", "T", "a", "s", "k", "T", "o", "o", "l">>,
      user_id |-> <<"u", "s", "e", "r", "_", "i", "d">>,
      title |-> <<"t", "i", "t", "l", "e">>,
      description |-> <<"d", "e", "s", "c", "r", "i", "p", "t", "i", "o", "n">>,
      task_id |-> <<"t", "a", "s", "k", "_", "i", "d">>,
      status |-> <<"s", "t", "a", "t", "u", "s">>,
      priority |-> <<"p", "r", "i", "o", "r", "i", "t", "y">> ]

(***************************************************************************)
(* Exceptions and call outcomes.  A call either returns a result or        *)
(* raises; `st` is the state of the database session after the call:       *)
(* the rows the open transaction sees, the id sequences and the clock.     *)
(***************************************************************************)
Exc(type, text) == [type |-> type, text |-> text]

NoExc == Exc("none", << >>)

NoResult == [none |-> TRUE]

Returned(st, result) ==
    [st |-> st, raised |-> FALSE, exc |-> NoExc, result |-> result]

Raised(st, exc) ==
    [st |-> st, raised |-> TRUE, exc |-> exc, result |-> NoResult]

\* uuid.UUID(user_id) succeeds
ValidUUID(user_id) == user_id \in Users

\* variant: select(Task).where(Task.id == task_id)
FindTask_any_owner(st, task_id, user_id) ==
    {t \in st.tasks : t.id = task_id}

\* select(Task).where(Task.id == task_id, Task.user_id == user_uuid)
FindTask(st, task_id, user_id) ==
    {t \in st.tasks : t.id = task_id /\ t.user_id = user_id}

ErrorResult(kind, message) == [error |-> kind, message |-> message]

InvalidUserResult == ErrorResult("validation_error", txt_invalid_user)

TaskNotFoundResult(task_id) ==
    ErrorResult("not_found", txt_task \o int_str(task_id) \o txt_not_found)

\* what `except Exception as e` of a tool returns when the session raises
StorageFailure == ErrorResult("internal_error", txt_connection_lost)

(***************************************************************************)
(* MCP tools over the task store (mcp/tools.py).  kwargs is the keyword    *)
(* mapping the tool is called with, already bound to its signature.        *)
(***************************************************************************)
\* variant: the storage exception leaves the tool
AddTaskTool_run_uncaught(st, kwargs) ==
    LET description ==
            IF "description" \in DOMAIN kwargs THEN kwargs.description ELSE None
        task == [id |-> st.task_seq,
                 user_id |-> kwargs.user_id,
                 title |-> kwargs.title,
                 description |-> description,
                 completed |-> FALSE,
                 created_at |-> st.clock,
                 updated_at |-> st.clock]
    IN  IF ~ValidUUID(kwargs.user_id)
        THEN Returned(st, InvalidUserResult)
        ELSE IF ~st.connected
        THEN Raised(st, Exc("OperationalError", txt_connection_lost))
        ELSE Returned([st EXCEPT !.tasks = @ \cup {task},
                                 !.task_seq = @ + 1,
                                 !.clock = @ + 1],
                      [task_id |-> task.id, status |-> "created",
                       title |-> task.title])

AddTaskTool_run(st, kwargs) ==
    LET description ==
            IF "description" \in DOMAIN kwargs THEN kwargs.description ELSE None
        task == [id |-> st.task_seq,
                 user_id |-> kwargs.user_id,
                 title |-> kwargs.title,
                 description |-> description,
                 completed |-> FALSE,
                 created_at |-> st.clock,
                 updated_at |-> st.clock]
    IN  IF ~ValidUUID(kwargs.user_id)
        THEN Returned(st, InvalidUserResult)
        ELSE IF ~st.connected
        THEN Returned(st, StorageFailure)
        ELSE Returned([st EXCEPT !.tasks = @ \cup {task},
                                 !.task_seq = @ + 1,
                                 !.clock = @ + 1],
                      [task_id |-> task.id, status |-> "created",
                       title |-> task.title])

\* rows in order_by(Task.created_at.desc())
RECURSIVE NewestFirst(_)
NewestFirst(rows) ==
    IF rows = {} THEN << >>
    ELSE LET newest == CHOOSE t \in rows :
                           \A u \in rows : u.created_at <= t.created_at
         IN  << newest >> \o NewestFirst(rows \ {newest})

\* variant: the pending filter is missing
ListTasksTool_run_pending_unfiltered(st, kwargs) ==
    LET status == IF "status" \in DOMAIN kwargs THEN kwargs.status ELSE "all"
        owned == {t \in st.tasks : t.user_id = kwargs.user_id}
        rows == CASE status = "completed" -> {t \in owned : t.completed}
                  [] OTHER -> owned
        ordered == NewestFirst(rows)
    IN  IF ~ValidUUID(kwargs.user_id)
        THEN Returned(st, [list |-> << InvalidUserResult >>])
        ELSE Returned(st,
                 [list |-> [i \in 1..Len(ordered) |->
                               [id |-> ordered[i].id,
                                title |-> ordered[i].title,
                                completed |-> ordered[i].completed]]])

\* variant: the query has no owner condition
ListTasksTool_run_every_owner(st, kwargs) ==
    LET status == IF "status" \in DOMAIN kwargs THEN kwargs.status ELSE "all"
        rows == CASE status = "pending" -> {t \in st.tasks : ~t.completed}
                  [] status = "completed" -> {t \in st.tasks : t.completed}
                  [] OTHER -> st.tasks
        ordered == NewestFirst(rows)
    IN  IF ~ValidUUID(kwargs.user_id)
        THEN Returned(st, [list |-> << InvalidUserResult >>])
        ELSE Returned(st,
                 [list |-> [i \in 1..Len(ordered) |->
                               [id |-> ordered[i].id,
                                title |-> ordered[i].title,
                                completed |-> ordered[i].completed]]])

ListTasksTool_run(st, kwargs) ==
    LET status == IF "status" \in DOMAIN kwargs THEN kwargs.status ELSE "all"
        owned == {t \in st.tasks : t.user_id = kwargs.user_id}
        rows == CASE status = "pending" -> {t \in owned : ~t.completed}
                  [] status = "completed" -> {t \in owned : t.completed}
                  [] OTHER -> owned
        ordered == NewestFirst(rows)
    IN  IF ~ValidUUID(kwargs.user_id)
        THEN Returned(st, [list |-> << InvalidUserResult >>])
        ELSE IF ~st.connected
        THEN Returned(st, [list |-> << StorageFailure >>])
        ELSE Returned(st,
                 [list |-> [i \in 1..Len(ordered) |->
                               [id |-> ordered[i].id,
                                title |-> ordered[i].title,
                                completed |-> ordered[i].completed]]])

CompleteTaskTool_run(st, kwargs) ==
    LET found == FindTask(st, kwargs.task_id, kwargs.user_id)
        task == CHOOSE t \in found : TRUE
        done == [task EXCEPT !.completed = TRUE]
    IN  IF ~ValidUUID(kwargs.user_id)
        THEN Returned(st, InvalidUserResult)
        ELSE IF ~st.connected
        THEN Returned(st, StorageFailure)
        ELSE IF found = {}
        THEN Returned(st, TaskNotFoundResult(kwargs.task_id))
        ELSE Returned([st EXCEPT !.tasks = (@ \ {task}) \cup {done}],
                      [task_id |-> done.id, status |-> "completed",
                       title |-> done.title])

\* variant: the row is reported deleted and kept
DeleteTaskTool_run_row_kept(st, kwargs) ==
    LET found == FindTask(st, kwargs.task_id, kwargs.user_id)
        task == CHOOSE t \in found : TRUE
    IN  IF ~ValidUUID(kwargs.user_id)
        THEN Returned(st, InvalidUserResult)
        ELSE IF found = {}
        THEN Returned(st, TaskNotFoundResult(kwargs.task_id))
        ELSE Returned(st,
                      [task_id |-> kwargs.task_id, status |-> "deleted",
                       title |-> task.title])

\* variant: the task is looked up by its id alone
DeleteTaskTool_run_any_owner(st, kwargs) ==
    LET found == {t \in st.tasks : t.id = kwargs.task_id}
        task == CHOOSE t \in found : TRUE
    IN  IF ~ValidUUID(kwargs.user_id)
        THEN Returned(st, InvalidUserResult)
        ELSE IF found = {}
        THEN Returned(st, TaskNotFoundResult(kwargs.task_id))
        ELSE Returned([st EXCEPT !.tasks = @ \ {task}],
                      [task_id |-> kwargs.task_id, status |-> "deleted",
                       title |-> task.title])

DeleteTaskTool_run(st, kwargs) ==
    LET found == FindTask(st, kwargs.task_id, kwargs.user_id)
        task == CHOOSE t \in found : TRUE
    IN  IF ~ValidUUID(kwargs.user_id)
        THEN Returned(st, InvalidUserResult)
        ELSE IF ~st.connected
        THEN Returned(st, StorageFailure)
        ELSE IF found = {}
        THEN Returned(st, TaskNotFoundResult(kwargs.task_id))
        ELSE Returned([st EXCEPT !.tasks = @ \ {task}],
                      [task_id |-> kwargs.task_id, status |-> "deleted",
                       title |-> task.title])

\* variant: the description is assigned whether or not it was supplied
UpdateTaskTool_run_description_reset(st, kwargs) ==
    LET title == IF "title" \in DOMAIN kwargs THEN Some(kwargs.title) ELSE None
        description ==
            IF "description" \in DOMAIN kwargs THEN kwargs.description ELSE None
        found == FindTask(st, kwargs.task_id, kwargs.user_id)
        task == CHOOSE t \in found : TRUE
        retitled == IF title # None THEN [task EXCEPT !.title = title[1]]
                    ELSE task
        updated == [retitled EXCEPT !.description = description]
    IN  IF ~ValidUUID(kwargs.user_id)
        THEN Returned(st, InvalidUserResult)
        ELSE IF title = None /\ description = None
        THEN Returned(st, ErrorResult("validation_error", txt_update_fields))
        ELSE IF found = {}
        THEN Returned(st, TaskNotFoundResult(kwargs.task_id))
        ELSE Returned([st EXCEPT !.tasks = (@ \ {task}) \cup {updated}],
                      [task_id |-> updated.id, status |-> "updated",
                       title |-> updated.title])

\* variant: the task is looked up before the fields are checked
UpdateTaskTool_run_lookup_first(st, kwargs) ==
    LET title == IF "title" \in DOMAIN kwargs THEN Some(kwargs.title) ELSE None
        description ==
            IF "description" \in DOMAIN kwargs THEN kwargs.description ELSE None
        found == FindTask(st, kwargs.task_id, kwargs.user_id)
        task == CHOOSE t \in found : TRUE
        retitled == IF title # None THEN [task EXCEPT !.title = title[1]]
                    ELSE task
        updated == IF description # None
                   THEN [retitled EXCEPT !.description = description]
                   ELSE retitled
    IN  IF ~ValidUUID(kwargs.user_id)
        THEN Returned(st, InvalidUserResult)
        ELSE IF found = {}
        THEN Returned(st, TaskNotFoundResult(kwargs.task_id))
        ELSE IF title = None /\ description = None
        THEN Returned(st, ErrorResult("validation_error", txt_update_fields))
        ELSE Returned([st EXCEPT !.tasks = (@ \ {task}) \cup {updated}],
                      [task_id |-> updated.id, status |-> "updated",
                       title |-> updated.title])

UpdateTaskTool_run(st, kwargs) ==
    LET title == IF "title" \in DOMAIN kwargs THEN Some(kwargs.title) ELSE None
        description ==
            IF "description" \in DOMAIN kwargs THEN kwargs.description ELSE None
        found == FindTask(st, kwargs.task_id, kwargs.user_id)
        task == CHOOSE t \in found : TRUE
        retitled == IF title # None THEN [task EXCEPT !.title = title[1]]
                    ELSE task
        updated == IF description # None
                   THEN [retitled EXCEPT !.description = description]
                   ELSE retitled
    IN  IF ~ValidUUID(kwargs.user_id)
        THEN Returned(st, InvalidUserResult)
        ELSE IF title = None /\ description = None
        THEN Returned(st, ErrorResult("validation_error", txt_update_fields))
        ELSE IF ~st.connected
        THEN Returned(st, StorageFailure)
        ELSE IF found = {}
        THEN Returned(st, TaskNotFoundResult(kwargs.task_id))
        ELSE Returned([st EXCEPT !.tasks = (@ \ {task}) \cup {updated}],
                      [task_id |-> updated.id, status |-> "updated",
                       title |-> updated.title])

(***************************************************************************)
(* Tool registry and dispatch by name (mcp/server.py).                     *)
(***************************************************************************)
_tools == {"add_task", "list_tasks", "complete_task", "delete_task",
           "update_task"}

ToolClass(tool_name) ==
    CASE tool_name = "add_task" -> "AddTaskTool"
      [] tool_name = "list_tasks" -> "ListTasksTool"
      [] tool_name = "complete_task" -> "CompleteTaskTool"
      [] tool_name = "delete_task" -> "DeleteTaskTool"
      [] tool_name = "update_task" -> "UpdateTaskTool"

\* keyword parameters of each tool's run(self, session, ...)
RunParams(tool_name) ==
    CASE tool_name = "add_task" -> {"user_id", "title", "description"}
      [] tool_name = "list_tasks" -> {"user_id", "status"}
      [] tool_name = "complete_task" -> {"user_id", "task_id"}
      [] tool_name = "delete_task" -> {"user_id", "task_id"}
      [] tool_name = "update_task" ->
             {"user_id", "task_id", "title", "description"}

\* the parameters of run without a default value
RunRequired(tool_name) ==
    CASE tool_name = "add_task" -> {"user_id", "title"}
      [] tool_name = "list_tasks" -> {"user_id"}
      [] tool_name = "complete_task" -> {"user_id", "task_id"}
      [] tool_name = "delete_task" -> {"user_id", "task_id"}
      [] tool_name = "update_task" -> {"user_id", "task_id"}

ToolRun(tool_name, st, kwargs) ==
    CASE tool_name = "add_task" -> AddTaskTool_run(st, kwargs)
      [] tool_name = "list_tasks" -> ListTasksTool_run(st, kwargs)
      [] tool_name = "complete_task" -> CompleteTaskTool_run(st, kwargs)
      [] tool_name = "delete_task" -> DeleteTaskTool_run(st, kwargs)
      [] tool_name = "update_task" -> UpdateTaskTool_run(st, kwargs)

\* Python's binding of **kwargs to run(): the TypeError it raises, if any
BindError(tool_name, kwargs) ==
    LET unexpected == DOMAIN kwargs \ RunParams(tool_name)
        missing == RunRequired(tool_name) \ DOMAIN kwargs
    IN  IF unexpected # {}
        THEN Some(Exc("TypeError",
                 Chars[ToolClass(tool_name)] \o txt_run_unexpected
                 \o Chars[CHOOSE k \in unexpected : TRUE] \o txt_quote))
        ELSE IF missing # {}
        THEN Some(Exc("TypeError",
                 Chars[ToolClass(tool_name)] \o txt_run_missing
                 \o Chars[CHOOSE k \in missing : TRUE] \o txt_quote))
        ELSE None

\* variant: an unknown name is answered with an error result
execute_mcp_tool_unknown_returned(tool_name, st, kwargs) ==
    IF tool_name \notin _tools
    THEN Returned(st, ErrorResult("not_found",
                                  txt_unknown_tool \o Chars[tool_name]))
    ELSE IF BindError(tool_name, kwargs) # None
    THEN Raised(st, BindError(tool_name, kwargs)[1])
    ELSE ToolRun(tool_name, st, kwargs)

execute_mcp_tool(tool_name, st, kwargs) ==
    IF tool_name \notin _tools
    THEN Raised(st, Exc("ValueError", txt_unknown_tool \o Chars[tool_name]))
    ELSE IF BindError(tool_name, kwargs) # None
    THEN Raised(st, BindError(tool_name, kwargs)[1])
    ELSE ToolRun(tool_name, st, kwargs)

(***************************************************************************)
(* Conversation store (services/conversation_service.py).                  *)
(***************************************************************************)
\* variant: select(Conversation).where(id == conversation_id)
FindConversation_any_owner(st, conversation_id, user_id) ==
    {c \in st.conversations : c.id = conversation_id}

\* select(Conversation).where(id == conversation_id, user_id == user_id)
FindConversation(st, conversation_id, user_id) ==
    {c \in st.conversations : c.id = conversation_id /\ c.user_id = user_id}

ConversationNotFound(conversation_id) ==
    Exc("ValueError",
        txt_conversation \o int_str(conversation_id)
        \o txt_conversation_not_found)

\* conversation_id is an optional; the result is the conversation row
get_or_create_conversation(st, user_id, conversation_id) ==
    LET found == FindConversation(st, conversation_id[1], user_id)
        created == [id |-> st.conversation_seq,
                    user_id |-> user_id,
                    created_at |-> st.clock,
                    updated_at |-> st.clock]
    IN  IF conversation_id # None
        THEN IF found = {}
             THEN Raised(st, ConversationNotFound(conversation_id[1]))
             ELSE Returned(st, CHOOSE c \in found : TRUE)
        ELSE Returned([st EXCEPT !.conversations = @ \cup {created},
                                 !.conversation_seq = @ + 1,
                                 !.clock = @ + 1],
                      created)

\* the first n elements of a sequence (SQL LIMIT n)
Limit(seq, n) == SubSeq(seq, 1, IF Len(seq) < n THEN Len(seq) ELSE n)

Reversed(seq) == [i \in 1..Len(seq) |-> seq[Len(seq) + 1 - i]]

\* the orders in which order_by(desc(Message.created_at)) may return rows:
\* rows of equal created_at come in whichever order the database picks
RECURSIVE CreatedDescOrders(_)
CreatedDescOrders(rows) ==
    IF rows = {} THEN {<< >>}
    ELSE UNION { { << t >> \o rest : rest \in CreatedDescOrders(rows \ {t}) } :
                 t \in {t \in rows : \A u \in rows :
                                         u.created_at <= t.created_at} }

\* get_conversation_messages when the database answers the message query
\* with the rows `selected`
get_conversation_messages_selected(st, conversation_id, user_id, selected) ==
    LET messages == Reversed(selected)
    IN  IF FindConversation(st, conversation_id, user_id) = {}
        THEN Raised(st, ConversationNotFound(conversation_id))
        ELSE Returned(st, [list |-> [i \in 1..Len(messages) |->
                                        [role |-> messages[i].role,
                                         content |-> messages[i].content]]])

\* with created_at values that all differ the order is the only one
get_conversation_messages(st, conversation_id, user_id, limit) ==
    get_conversation_messages_selected(st, conversation_id, user_id,
        Limit(NewestFirst({m \in st.messages :
                              m.conversation_id = conversation_id}), limit))

\* variant: the role is not validated
store_message_any_role(st, conversation_id, user_id, role, content) ==
    LET found == FindConversation(st, conversation_id, user_id)
        message == [id |-> st.message_seq,
                    conversation_id |-> conversation_id,
                    user_id |-> user_id,
                    role |-> role,
                    content |-> content,
                    created_at |-> st.clock]
        bumped == {IF c.id = conversation_id
                   THEN [c EXCEPT !.updated_at = st.clock + st.tick]
                   ELSE c : c \in st.conversations}
    IN  IF found = {}
        THEN Raised(st, ConversationNotFound(conversation_id))
        ELSE Returned([st EXCEPT !.messages = @ \cup {message},
                                 !.message_seq = @ + 1,
                                 !.conversations = bumped,
                                 !.clock = @ + 2 * st.tick],
                      message)

\* store_message up to the refresh of the new row: the role and the
\* conversation are checked and the message is inserted.  created_at is
\* datetime.utcnow() read when the row is built; the clock moves on by
\* st.tick, which is 0 while it stands still between two reads.
store_message_insert(st, conversation_id, user_id, role, content) ==
    LET found == FindConversation(st, conversation_id, user_id)
        message == [id |-> st.message_seq,
                    conversation_id |-> conversation_id,
                    user_id |-> user_id,
                    role |-> role,
                    content |-> content,
                    created_at |-> st.clock]
    IN  IF role \notin {"user", "assistant"}
        THEN Raised(st, Exc("ValueError", << "Invalid role" >>))
        ELSE IF found = {}
        THEN Raised(st, ConversationNotFound(conversation_id))
        ELSE Returned([st EXCEPT !.messages = @ \cup {message},
                                 !.message_seq = @ + 1,
                                 !.clock = @ + st.tick],
                      message)

\* the rest of store_message:
\* update(Conversation).where(id == conversation_id).values(updated_at=now)
store_message_touch(st, conversation_id) ==
    [st EXCEPT !.conversations =
                   {IF c.id = conversation_id
                    THEN [c EXCEPT !.updated_at = st.clock]
                    ELSE c : c \in @},
               !.clock = @ + st.tick]

store_message(st, conversation_id, user_id, role, content) ==
    LET inserted == store_message_insert(st, conversation_id, user_id, role,
                                         content)
    IN  IF inserted.raised THEN inserted
        ELSE Returned(store_message_touch(inserted.st, conversation_id),
                      inserted.result)

\* the orders in which order_by(desc(Conversation.updated_at)) may return
\* rows: rows of equal updated_at come in whichever order the database picks
RECURSIVE UpdatedDescOrders(_)
UpdatedDescOrders(rows) ==
    IF rows = {} THEN {<< >>}
    ELSE UNION { { << c >> \o rest : rest \in UpdatedDescOrders(rows \ {c}) } :
                 c \in {c \in rows : \A d \in rows :
                                         d.updated_at <= c.updated_at} }

\* variant: select(Conversation) without the where clause
list_user_conversations_every_owner(st, user_id, limit, ordered) ==
    Returned(st, [list |-> Limit(ordered, limit)])

\* list_user_conversations when the database sorts the rows as `ordered`,
\* one of UpdatedDescOrders(st.conversations)
list_user_conversations(st, user_id, limit, ordered) ==
    Returned(st, [list |-> Limit(SelectSeq(ordered,
                                     LAMBDA c : c.user_id = user_id), limit)])

\* variant: select(Conversation).where(id == conversation_id)
delete_conversation_any_owner(st, conversation_id, user_id) ==
    LET found == FindConversation_any_owner(st, conversation_id, user_id)
    IN  IF found = {}
        THEN Returned(st, [deleted |-> FALSE])
        ELSE Returned([st EXCEPT !.conversations = @ \ found,
                                 !.messages = {m \in @ :
                                     m.conversation_id # conversation_id}],
                      [deleted |-> TRUE])

\* variant: the conversation row goes, its messages stay
delete_conversation_no_cascade(st, conversation_id, user_id) ==
    LET found == FindConversation(st, conversation_id, user_id)
    IN  IF found = {}
        THEN Returned(st, [deleted |-> FALSE])
        ELSE Returned([st EXCEPT !.conversations = @ \ found],
                      [deleted |-> TRUE])

\* session.delete(conversation) deletes conversation.messages with it
\* (models.py, cascade "all, delete-orphan")
delete_conversation(st, conversation_id, user_id) ==
    LET found == FindConversation(st, conversation_id, user_id)
    IN  IF found = {}
        THEN Returned(st, [deleted |-> FALSE])
        ELSE Returned([st EXCEPT !.conversations = @ \ found,
                                 !.messages = {m \in @ :
                                     m.conversation_id # conversation_id}],
                      [deleted |-> TRUE])

(***************************************************************************)
(* The orchestration loop (ai/runner.py, AgentRunner.run).  The reasoning  *)
(* engine is the environment: each of its answers is an input of the       *)
(* action that takes one trip round the loop.                              *)
(***************************************************************************)
Json(mapping) == [valid |-> TRUE, value |-> mapping]

BadJson == [valid |-> FALSE, value |-> [malformed |-> TRUE]]

\* json.loads(arguments): the parsed mapping, or the JSONDecodeError
json_loads(arguments) ==
    IF arguments.valid
    THEN [raised |-> FALSE, exc |-> NoExc, value |-> arguments.value]
    ELSE [raised |-> TRUE,
          exc |-> Exc("JSONDecodeError", txt_json_error),
          value |-> arguments.value]

\* variant: an owner named by the engine is kept (setdefault)
InjectOwner_setdefault(tool_args, user_id) ==
    [k \in DOMAIN tool_args \cup {"user_id"} |->
        IF k \in DOMAIN tool_args THEN tool_args[k] ELSE user_id]

\* tool_args["user_id"] = user_id
InjectOwner(tool_args, user_id) ==
    [k \in DOMAIN tool_args \cup {"user_id"} |->
        IF k = "user_id" THEN user_id ELSE tool_args[k]]

\* the assistant entry appended for a response that requests tools
AssistantToolCallMessage(response) ==
    [role |-> "assistant",
     content |-> IF response.content = None THEN << >>
                 ELSE response.content[1],
     tool_calls |-> [i \in 1..Len(response.tool_calls) |->
                       [id |-> response.tool_calls[i].id,
                        type |-> response.tool_calls[i].type,
                        function |->
                          [name |-> response.tool_calls[i].function.name,
                           arguments |->
                             response.tool_calls[i].function.arguments]]]]

\* str(tool_result): the text of the result, not the result itself
str(value) == [str |-> value]

ToolMessage(tool_call, tool_name, tool_result) ==
    [role |-> "tool",
     tool_call_id |-> tool_call.id,
     name |-> tool_name,
     content |-> str(tool_result)]

\* variant: the arguments are recorded as the engine sent them
ToolCallRecord_raw_arguments(tool_name, tool_args, tool_result) ==
    [tool |-> tool_name,
     arguments |-> [k \in DOMAIN tool_args \ {"user_id"} |-> tool_args[k]],
     result |-> tool_result]

ToolCallRecord(tool_name, tool_args, tool_result) ==
    [tool |-> tool_name, arguments |-> tool_args, result |-> tool_result]

\* what the registry saw: one entry per execute_mcp_tool call
Dispatch(caller, tool_name, kwargs, out) ==
    [caller |-> caller, tool |-> tool_name, kwargs |-> kwargs,
     raised |-> out.raised, result |-> out.result]

\* body of `for tool_call in assistant_message.tool_calls`, one iteration
ExecuteToolCall(r, tool_call, user_id) ==
    LET tool_name == tool_call.function.name
    IN  Let(json_loads(tool_call.function.arguments), LAMBDA parsed :
        Let(InjectOwner(parsed.value, user_id), LAMBDA tool_args :
        Let(execute_mcp_tool(tool_name, r.st, tool_args), LAMBDA out :
            IF parsed.raised
            THEN [r EXCEPT !.raised = TRUE, !.exc = parsed.exc]
            ELSE IF out.raised
            THEN [r EXCEPT
                    !.raised = TRUE, !.exc = out.exc,
                    !.registry_log =
                        Append(@, Dispatch("loop", tool_name, tool_args, out))]
            ELSE [r EXCEPT
                    !.st = out.st,
                    !.tool_calls_made =
                        Append(@, ToolCallRecord(tool_name, tool_args,
                                                 out.result)),
                    !.full_messages =
                        Append(@, ToolMessage(tool_call, tool_name,
                                              out.result)),
                    !.registry_log =
                        Append(@, Dispatch("loop", tool_name, tool_args,
                                           out))])))

\* the for loop over the tool calls of one response; stops at a raise
RECURSIVE ExecuteToolCalls(_, _, _)
ExecuteToolCalls(r, tool_calls, user_id) ==
    IF tool_calls = << >> \/ r.raised THEN r
    ELSE ExecuteToolCalls(ExecuteToolCall(r, Head(tool_calls), user_id),
                          Tail(tool_calls), user_id)

BUDGET_MESSAGE ==
    << "I apologize, but I'm having trouble completing that request. Could you try rephrasing?" >>

\* variant: the assistant's tool-call request is not appended
RunIteration_no_request(r, response, user_id, max_iterations) ==
    LET counted == [r EXCEPT !.iterations = @ + 1]
    IN  Let(ExecuteToolCalls(counted, response.tool_calls, user_id),
            LAMBDA executed :
        IF response.tool_calls = << >>
        THEN [counted EXCEPT
                !.returned = TRUE,
                !.result = [assistant_message |-> response.content,
                            tool_calls |-> counted.tool_calls_made,
                            iterations |-> counted.iterations]]
        ELSE IF executed.raised THEN executed
        ELSE IF executed.iterations < max_iterations THEN executed
        ELSE [executed EXCEPT
                !.returned = TRUE,
                !.result = [assistant_message |-> Some(BUDGET_MESSAGE),
                            tool_calls |-> executed.tool_calls_made,
                            iterations |-> executed.iterations,
                            error |-> "max_iterations_reached"]])

\* One trip round `while iterations < max_iterations` for one engine
\* response: r.returned is set when run() returns, r.raised when it raises.
RunIteration(r, response, user_id, max_iterations) ==
    LET counted == [r EXCEPT !.iterations = @ + 1]
        asked == [counted EXCEPT
                    !.full_messages =
                        Append(@, AssistantToolCallMessage(response))]
    IN  Let(ExecuteToolCalls(asked, response.tool_calls, user_id),
            LAMBDA executed :
        IF response.tool_calls = << >>
        THEN [counted EXCEPT
                !.returned = TRUE,
                !.result = [assistant_message |-> response.content,
                            tool_calls |-> counted.tool_calls_made,
                            iterations |-> counted.iterations]]
        ELSE IF executed.raised THEN executed
        ELSE IF executed.iterations < max_iterations THEN executed
        ELSE [executed EXCEPT
                !.returned = TRUE,
                !.result = [assistant_message |-> Some(BUDGET_MESSAGE),
                            tool_calls |-> executed.tool_calls_made,
                            iterations |-> executed.iterations,
                            error |-> "max_iterations_reached"]])

(***************************************************************************)
(* The fallback responder (ai/mock_runner.py).  Messages contain no line   *)
(* break, so `.` of a regular expression matches every character.          *)
(***************************************************************************)
kw_to == <<"t", "o">>
kw_for == <<"f", "o", "r">>
kw_into == <<"i", "n", "t", "o">>
kw_as == <<"a", "s">>
kw_task == <<"t", "a", "s", "k">>
kw_add == <<"a", "d", "d">>
kw_create == <<"c", "r", "e", "a", "t", "e">>
kw_new_task == <<"n", "e", "w", " ", "t", "a", "s", "k">>
kw_todo == <<"t", "o", "d", "o">>
ADD_KEYWORDS ==
    << <<"a", "d", "d">>,
       <<"c", "r", "e", "a", "t", "e">>,
       <<"n", "e", "w", " ", "t", "a", "s", "k">>,
       <<"m", "a", "k", "e", " ", "a", " ", "t", "a", "s", "k">>,
       <<"t", "o", "d", "o">> >>
LIST_KEYWORDS ==
    << <<"l", "i", "s", "t">>,
       <<"s", "h", "o", "w">>,
       <<"w", "h", "a", "t">>,
       <<"t", "a", "s", "k", "s">>,
       <<"m", "y", " ", "t", "a", "s", "k", "s">>,
       <<"a", "l", "l", " ", "t", "a", "s", "k", "s">>,
       <<"v", "i", "e", "w">> >>
COMPLETE_KEYWORDS ==
    << <<"c", "o", "m", "p", "l", "e", "t", "e">>,
       <<"f", "i", "n", "i", "s", "h">>,
       <<"d", "o", "n", "e">>,
       <<"f", "i", "n", "i", "s", "h", "e", "d">>,
       <<"m", "a", "r", "k", " ", "a", "s", " ", "c", "o", "m", "p", "l", "e", "t", "e">> >>
DELETE_KEYWORDS ==
    << <<"d", "e", "l", "e", "t", "e">>,
       <<"r", "e", "m", "o", "v", "e">>,
       <<"c", "a", "n", "c", "e", "l">> >>
UPDATE_KEYWORDS ==
    << <<"u", "p", "d", "a", "t", "e">>,
       <<"c", "h", "a", "n", "g", "e">>,
       <<"m", "o", "d", "i", "f", "y">>,
       <<"e", "d", "i", "t">>,
       <<"r", "e", "n", "a", "m", "e">> >>
HELP_KEYWORDS ==
    << <<"h", "e", "l", "p">>,
       <<"w", "h", "a", "t", " ", "c", "a", "n", " ", "y", "o", "u", " ", "d", "o">>,
       <<"c", "o", "m", "m", "a", "n", "d", "s">>,
       <<"h", "o", "w">> >>
FILLER_WORDS ==
    << <<"a">>,
       <<"a", "n">>,
       <<"t", "h", "e">>,
       <<"t", "o">>,
       <<"t", "a", "s", "k">>,
       <<":">>,
       <<"f", "o", "r">> >>
PATTERN3_KEYWORDS ==
    << <<"a", "d", "d">>,
       <<"c", "r", "e", "a", "t", "e">>,
       <<"n", "e", "w", " ", "t", "a", "s", "k">>,
       <<"t", "o", "d", "o">> >>

Min(S) == CHOOSE x \in S : \A y \in S : x <= y

\* any(keyword in message_lower for keyword in keywords)
AnyKeyword(keywords, message_lower) ==
    \E i \in 1..Len(keywords) : contains(message_lower, keywords[i])

\* `\s+(.+)` matched at position j up to the end of the text: group 1
TailGroup(s, j) ==
    LET rest == {k \in j..Len(s) : ~IsSpace(s[k])}
    IN  IF j > Len(s) \/ ~IsSpace(s[j]) THEN None
        ELSE IF rest # {} THEN Some(SubSeq(s, Min(rest), Len(s)))
        ELSE IF Len(s) - j + 1 >= 2 THEN Some(<< s[Len(s)] >>)
        ELSE None

\* the alternatives of `alts` (tried in order) followed by `\s+(.+)`, at i
AltThenTail(s, alts, i) ==
    LET ok == {a \in 1..Len(alts) :
                  /\ StartsAt(s, alts[a], i)
                  /\ TailGroup(s, i + Len(alts[a])) # None}
    IN  IF ok = {} THEN None
        ELSE TailGroup(s, i + Len(alts[Min(ok)]))

\* re.search(r'(?:alts)\s+(.+)', s): group 1 of the leftmost match
SearchAltThenTail(s, alts) ==
    LET at == {i \in 1..Len(s) : AltThenTail(s, alts, i) # None}
    IN  IF at = {} THEN None ELSE AltThenTail(s, alts, Min(at))

\* re.search(r'(?:add|create).*?(?:task)?.*?(?:to|for)\s+(.+)', s)
SearchAddTo(s) ==
    LET starts == {i \in 1..Len(s) :
                      StartsAt(s, kw_add, i) \/ StartsAt(s, kw_create, i)}
        i0 == Min(starts)
        p == i0 + (IF StartsAt(s, kw_add, i0) THEN Len(kw_add)
                   ELSE Len(kw_create))
        at == {q \in p..Len(s) :
                  AltThenTail(s, << kw_to, kw_for >>, q) # None}
    IN  IF starts = {} THEN None
        ELSE IF at = {} THEN None
        ELSE AltThenTail(s, << kw_to, kw_for >>, Min(at))

\* message_lower.split(keyword, 1)[1]
AfterFirst(s, keyword) ==
    LET i == Min({k \in 1..Len(s) : StartsAt(s, keyword, k)})
    IN  SubSeq(s, i + Len(keyword), Len(s))

\* re.sub(r'^(a|an|the|to|task|:|for)\s+', '', description)
StripFiller(description) ==
    LET ok == {f \in 1..Len(FILLER_WORDS) :
                  /\ StartsAt(description, FILLER_WORDS[f], 1)
                  /\ Len(description) > Len(FILLER_WORDS[f])
                  /\ IsSpace(description[Len(FILLER_WORDS[f]) + 1])}
    IN  IF ok = {} THEN description
        ELSE lstrip(SubSeq(description, Len(FILLER_WORDS[Min(ok)]) + 1,
                           Len(description)))

\* the three extraction patterns of _handle_add_task, tried in order
ExtractAddDescription(message_lower) ==
    Let(SearchAddTo(message_lower), LAMBDA m1 :
    Let(IF m1 # None THEN Some(strip(m1[1])) ELSE None, LAMBDA d1 :
    Let(SearchAltThenTail(message_lower,
                          << kw_add, kw_create, kw_new_task >>), LAMBDA m2 :
    Let(IF d1 # None /\ d1[1] # << >> THEN d1
        ELSE IF m2 # None THEN Some(strip(m2[1])) ELSE d1, LAMBDA d2 :
        LET used == {k \in 1..Len(PATTERN3_KEYWORDS) :
                        contains(message_lower, PATTERN3_KEYWORDS[k])}
        IN  IF d2 # None /\ d2[1] # << >> THEN d2
            ELSE IF used = {} THEN d2
            ELSE Some(StripFiller(strip(
                     AfterFirst(message_lower,
                                PATTERN3_KEYWORDS[Min(used)])))) ))))

\* re.search(r'(?:task\s+)?(\d+)', s): int(group 1)
ExtractTaskId(s) ==
    LET digits == {i \in 1..Len(s) : IsDigit(s[i])}
        first == Min(digits)
        last == Min({j \in first..Len(s) :
                        j = Len(s) \/ ~IsDigit(s[j + 1])})
    IN  IF digits = {} THEN None
        ELSE Some(int_of(SubSeq(s, first, last)))

MockReply(st, message, tool_calls, dispatched) ==
    [st |-> st, message |-> message, tool_calls |-> tool_calls,
     dispatched |-> dispatched]

_handle_add_task(st, user_id, original_message, message_lower) ==
    Let(ExtractAddDescription(message_lower), LAMBDA description :
    Let([user_id |-> user_id, title |-> description[1],
         description |-> None], LAMBDA kwargs :
    Let(execute_mcp_tool("add_task", st, kwargs), LAMBDA out :
    Let(<< Dispatch("fallback", "add_task", kwargs, out) >>, LAMBDA log :
        IF description = None \/ Len(description[1]) < 3
        THEN MockReply(st, << "I'd be happy to add a task! Could you please tell me what you'd like to add?" >>,
                       << >>, << >>)
        ELSE IF out.raised
        THEN MockReply(st, << "I encountered an error while adding the task: " >>
                           \o out.exc.text, << >>, log)
        ELSE IF "task_id" \in DOMAIN out.result /\ out.result.task_id # 0
        THEN MockReply(out.st,
                 << "I've added the task: " >> \o description[1]
                 \o << " Task ID: " >> \o int_str(out.result.task_id),
                 << [tool |-> "add_task",
                     arguments |-> [title |-> description[1]],
                     result |-> out.result] >>,
                 log)
        ELSE MockReply(out.st,
                 << "I tried to add the task, but encountered an issue: ",
                    out.result.error >>, << >>, log) ))))

RECURSIVE TaskLines(_)
TaskLines(rows) ==
    IF rows = << >> THEN << >>
    ELSE int_str(Head(rows).id) \o << ". " >> \o Head(rows).title
         \o << "\n" >> \o TaskLines(Tail(rows))

_handle_list_tasks(st, user_id) ==
    Let([user_id |-> user_id, status |-> "all"], LAMBDA kwargs :
    Let(execute_mcp_tool("list_tasks", st, kwargs), LAMBDA out :
    Let(<< Dispatch("fallback", "list_tasks", kwargs, out) >>, LAMBDA log :
    Let(out.result.list, LAMBDA tasks :
    Let(SelectSeq(tasks, LAMBDA t : ~t.completed), LAMBDA pending_tasks :
    Let(SelectSeq(tasks, LAMBDA t : t.completed), LAMBDA completed_tasks :
    Let(<< [tool |-> "list_tasks", arguments |-> EmptyDict,
            result |-> out.result] >>, LAMBDA audit :
        IF out.raised
        THEN MockReply(st, << "I encountered an error while fetching your tasks: " >>
                           \o out.exc.text, << >>, log)
        ELSE IF tasks = << >>
        THEN MockReply(out.st,
                 << "You don't have any tasks yet. Would you like to add one?" >>,
                 audit, log)
        ELSE IF \E i \in 1..Len(tasks) : "error" \in DOMAIN tasks[i]
        THEN MockReply(out.st,
                 << "I encountered an error while fetching your tasks: 'id'" >>,
                 << >>, log)
        ELSE MockReply(out.st,
                 << "Here are your tasks (" >> \o int_str(Len(tasks))
                 \o << " total):" >>
                 \o (IF pending_tasks # << >>
                     THEN << "Pending:" >> \o TaskLines(pending_tasks)
                     ELSE << >>)
                 \o (IF completed_tasks # << >>
                     THEN << "Completed:" >>
                          \o TaskLines(Limit(completed_tasks, 3))
                     ELSE << >>)
                 \o << "Need help with any of these tasks?" >>,
                 audit, log) )))))))

\* variant: `task_id is None` instead of `not task_id`
HandleByTaskId_zero_accepted(st, user_id, message_lower, tool_name, ask, failed, ok) ==
    Let(ExtractTaskId(message_lower), LAMBDA task_id :
    Let([user_id |-> user_id, task_id |-> task_id[1]], LAMBDA kwargs :
    Let(execute_mcp_tool(tool_name, st, kwargs), LAMBDA out :
    Let(<< Dispatch("fallback", tool_name, kwargs, out) >>, LAMBDA log :
    Let(IF "message" \in DOMAIN out.result
        THEN out.result.message ELSE << out.result.error >>,
        LAMBDA error_msg :
        IF task_id = None
        THEN MockReply(st, << ask >>, << >>, << >>)
        ELSE IF out.raised
        THEN MockReply(st, << "I encountered an error: " >> \o out.exc.text,
                       << >>, log)
        ELSE IF "error" \in DOMAIN out.result
        THEN IF contains(lower(error_msg), kw_not_found)
             THEN MockReply(out.st,
                      << "I couldn't find task " >> \o int_str(task_id[1])
                      \o << ". Would you like to see your task list?" >>,
                      << >>, log)
             ELSE MockReply(out.st, << failed >> \o error_msg, << >>, log)
        ELSE MockReply(out.st,
                 << ok >> \o int_str(task_id[1]),
                 << [tool |-> tool_name,
                     arguments |-> [task_id |-> task_id[1]],
                     result |-> out.result] >>,
                 log) )))))

\* _handle_complete_task and _handle_delete_task differ in the tool and
\* in the wording only
HandleByTaskId(st, user_id, message_lower, tool_name, ask, failed, ok) ==
    Let(ExtractTaskId(message_lower), LAMBDA task_id :
    Let([user_id |-> user_id, task_id |-> task_id[1]], LAMBDA kwargs :
    Let(execute_mcp_tool(tool_name, st, kwargs), LAMBDA out :
    Let(<< Dispatch("fallback", tool_name, kwargs, out) >>, LAMBDA log :
    Let(IF "message" \in DOMAIN out.result
        THEN out.result.message ELSE << out.result.error >>,
        LAMBDA error_msg :
        IF task_id = None \/ task_id[1] = 0
        THEN MockReply(st, << ask >>, << >>, << >>)
        ELSE IF out.raised
        THEN MockReply(st, << "I encountered an error: " >> \o out.exc.text,
                       << >>, log)
        ELSE IF "error" \in DOMAIN out.result
        THEN IF contains(lower(error_msg), kw_not_found)
             THEN MockReply(out.st,
                      << "I couldn't find task " >> \o int_str(task_id[1])
                      \o << ". Would you like to see your task list?" >>,
                      << >>, log)
             ELSE MockReply(out.st, << failed >> \o error_msg, << >>, log)
        ELSE MockReply(out.st,
                 << ok >> \o int_str(task_id[1]),
                 << [tool |-> tool_name,
                     arguments |-> [task_id |-> task_id[1]],
                     result |-> out.result] >>,
                 log) )))))

_handle_complete_task(st, user_id, message_lower) ==
    HandleByTaskId(st, user_id, message_lower, "complete_task",
        "Which task would you like to mark as complete? Please provide the task number (e.g., 'Complete task 1').",
        "I couldn't complete that task: ",
        "Great job! I've marked as complete task ")

_handle_delete_task(st, user_id, message_lower) ==
    HandleByTaskId(st, user_id, message_lower, "delete_task",
        "Which task would you like to delete? Please provide the task number (e.g., 'Delete task 1').",
        "I couldn't delete that task: ",
        "I've deleted task ")

_handle_update_task(st, user_id, original_message, message_lower) ==
    Let(ExtractTaskId(message_lower), LAMBDA task_id :
    Let(SearchAltThenTail(message_lower, << kw_to, kw_into, kw_as >>),
        LAMBDA m :
    Let(IF m # None THEN Some(strip(m[1])) ELSE None, LAMBDA description :
    Let([user_id |-> user_id, task_id |-> task_id[1],
         title |-> description[1], description |-> None], LAMBDA kwargs :
    Let(execute_mcp_tool("update_task", st, kwargs), LAMBDA out :
    Let(<< Dispatch("fallback", "update_task", kwargs, out) >>, LAMBDA log :
    Let(IF "message" \in DOMAIN out.result
        THEN out.result.message ELSE << out.result.error >>,
        LAMBDA error_msg :
        IF task_id = None \/ task_id[1] = 0
        THEN MockReply(st, << "Which task would you like to update? Please provide the task number and new description (e.g., 'Update task 1 to buy milk and bread')." >>,
                       << >>, << >>)
        ELSE IF description = None \/ Len(description[1]) < 3
        THEN MockReply(st, << "What would you like to change task " >>
                           \o int_str(task_id[1]) \o << " to?" >>,
                       << >>, << >>)
        ELSE IF out.raised
        THEN MockReply(st, << "I encountered an error: " >> \o out.exc.text,
                       << >>, log)
        ELSE IF "error" \in DOMAIN out.result
        THEN IF contains(lower(error_msg), kw_not_found)
             THEN MockReply(out.st,
                      << "I couldn't find task " >> \o int_str(task_id[1])
                      \o << ". Would you like to see your task list?" >>,
                      << >>, log)
             ELSE MockReply(out.st,
                      << "I couldn't update that task: " >> \o error_msg,
                      << >>, log)
        ELSE MockReply(out.st,
                 << "I've updated task " >> \o int_str(task_id[1])
                 \o << " to: " >> \o description[1],
                 << [tool |-> "update_task",
                     arguments |-> [task_id |-> task_id[1],
                                    description |-> description[1]],
                     result |-> out.result] >>,
                 log) )))))))

_handle_help == << "AI Task Assistant - Available Commands" >>

DEFAULT_RESPONSES ==
    << "I'm here to help you manage your tasks! You can ask me to add, list, complete, delete, or update tasks. What would you like to do?",
       "I'm not quite sure what you'd like me to do. I can help with adding tasks, viewing your task list, marking tasks as complete, or deleting tasks. What do you need?",
       "I'm your task management assistant! Try asking me to 'list my tasks' or 'add a task to [something]'. How can I help?" >>

_handle_default(message) == << DEFAULT_RESPONSES[(Len(message) % 3) + 1] >>

\* variant: the add and the list bucket both handle the message
_process_intent_two_buckets(st, user_id, original_message, message_lower) ==
    Let(_handle_add_task(st, user_id, original_message, message_lower),
        LAMBDA first :
    Let(_handle_list_tasks(first.st, user_id), LAMBDA second :
        MockReply(second.st, first.message \o second.message,
                  first.tool_calls \o second.tool_calls,
                  first.dispatched \o second.dispatched) ))

\* variant: the delete bucket is tried before the list bucket
_process_intent_delete_first(st, user_id, original_message, message_lower) ==
    IF AnyKeyword(ADD_KEYWORDS, message_lower)
    THEN _handle_add_task(st, user_id, original_message, message_lower)
    ELSE IF AnyKeyword(DELETE_KEYWORDS, message_lower)
    THEN _handle_delete_task(st, user_id, message_lower)
    ELSE IF AnyKeyword(LIST_KEYWORDS, message_lower)
    THEN _handle_list_tasks(st, user_id)
    ELSE IF AnyKeyword(COMPLETE_KEYWORDS, message_lower)
    THEN _handle_complete_task(st, user_id, message_lower)
    ELSE IF AnyKeyword(UPDATE_KEYWORDS, message_lower)
    THEN _handle_update_task(st, user_id, original_message, message_lower)
    ELSE IF AnyKeyword(HELP_KEYWORDS, message_lower)
    THEN MockReply(st, _handle_help, << >>, << >>)
    ELSE MockReply(st, _handle_default(original_message), << >>, << >>)

_process_intent(st, user_id, original_message, message_lower) ==
    IF AnyKeyword(ADD_KEYWORDS, message_lower)
    THEN _handle_add_task(st, user_id, original_message, message_lower)
    ELSE IF AnyKeyword(LIST_KEYWORDS, message_lower)
    THEN _handle_list_tasks(st, user_id)
    ELSE IF AnyKeyword(COMPLETE_KEYWORDS, message_lower)
    THEN _handle_complete_task(st, user_id, message_lower)
    ELSE IF AnyKeyword(DELETE_KEYWORDS, message_lower)
    THEN _handle_delete_task(st, user_id, message_lower)
    ELSE IF AnyKeyword(UPDATE_KEYWORDS, message_lower)
    THEN _handle_update_task(st, user_id, original_message, message_lower)
    ELSE IF AnyKeyword(HELP_KEYWORDS, message_lower)
    THEN MockReply(st, _handle_help, << >>, << >>)
    ELSE MockReply(st, _handle_default(original_message), << >>, << >>)

GREETING ==
    << "Hello! I'm your AI task assistant. I can help you manage your tasks. Try asking me to add a task, list your tasks, or mark one as complete!" >>

\* MockAgentRunner.run; counted is whether conversation_count is bumped
MockAgentRunner_run(st, user_id, messages) ==
    LET users == {i \in 1..Len(messages) : messages[i].role = "user"}
        user_message == IF users = {} THEN << >>
                        ELSE messages[CHOOSE i \in users :
                                         \A j \in users : j <= i].content
    IN  Let(_process_intent(st, user_id, user_message, lower(user_message)),
            LAMBDA reply :
            IF user_message = << >>
            THEN [st |-> st, counted |-> FALSE, dispatched |-> << >>,
                  result |-> [message |-> GREETING, tool_calls |-> << >>]]
            ELSE [st |-> reply.st, counted |-> TRUE,
                  dispatched |-> reply.dispatched,
                  result |-> [message |-> reply.message,
                              tool_calls |-> reply.tool_calls]])

(***************************************************************************)
(* The chat turn (routes/chat.py, chat) inside the request's database      *)
(* session (db.py, get_session).                                           *)
(***************************************************************************)
SYSTEM_PROMPT == << "You are a helpful task management assistant." >>

FALLBACK_NOTE ==
    << "\n\n_Note: Using mock AI responses (OpenAI quota exceeded)_" >>

GENERIC_ERROR == << "An error occurred while processing your request" >>

DEFAULT_ASSISTANT_MESSAGE == << "I apologize, but I encountered an error." >>

\* variant: the status code is not looked for
IsCapacityError_no_429(error_str) ==
    \/ contains(lower(error_str), kw_quota)
    \/ contains(lower(error_str), kw_rate)

\* "quota" in s.lower() or "rate" in s.lower() or "429" in s
IsCapacityError(error_str) ==
    \/ contains(lower(error_str), kw_quota)
    \/ contains(lower(error_str), kw_rate)
    \/ contains(error_str, kw_429)

\* the exception types `except ValueError` catches
ValueErrors == {"ValueError", "JSONDecodeError"}

Rows(st) ==
    [tasks |-> st.tasks, conversations |-> st.conversations,
     messages |-> st.messages]

\* variant: the session is committed however the request ended
get_session_always_commit(committed_rows, st, failed) ==
    [db |-> Rows(st), st |-> st]

\* End of the request's session: commit on clean completion, rollback on
\* an exception.  Id sequences and the clock are not transactional.
get_session(committed_rows, st, failed) ==
    IF failed
    THEN [db |-> committed_rows,
          st |-> [st EXCEPT !.tasks = committed_rows.tasks,
                            !.conversations = committed_rows.conversations,
                            !.messages = committed_rows.messages]]
    ELSE [db |-> Rows(st), st |-> st]

\* the HTTPException the two outer except clauses raise
ErrorResponse(exc) ==
    IF exc.type \in ValueErrors
    THEN [status_code |-> 400, detail |-> exc.text]
    ELSE [status_code |-> 500, detail |-> GENERIC_ERROR]

TurnFailed(st, exc, info) ==
    [info EXCEPT !.committed = FALSE, !.st = st, !.exc = exc,
                 !.response = ErrorResponse(exc)]

\* agent_result.get("message") or agent_result.get("assistant_message", ...)
AssistantMessageOf(agent_result) ==
    IF "message" \in DOMAIN agent_result /\ agent_result.message # << >>
    THEN Some(agent_result.message)
    ELSE IF "assistant_message" \in DOMAIN agent_result
    THEN agent_result.assistant_message
    ELSE Some(DEFAULT_ASSISTANT_MESSAGE)

\* variant: step 5 is skipped, only the reply is stored
ChatStoreAndCommit_reply_only(st, req, conversation_id, agent_result, info) ==
    Let(AssistantMessageOf(agent_result), LAMBDA assistant_message :
    Let(store_message(st, conversation_id, req.user_id,
                      "assistant", assistant_message[1]),
        LAMBDA assistant_stored :
    Let([info EXCEPT !.agent_result = Some(agent_result)],
        LAMBDA with_result :
        IF assistant_message = None
        THEN TurnFailed(st,
                        Exc("IntegrityError",
                            << "null value in column content" >>),
                        with_result)
        ELSE IF assistant_stored.raised
        THEN TurnFailed(assistant_stored.st, assistant_stored.exc,
                        with_result)
        ELSE [with_result EXCEPT
                !.committed = TRUE,
                !.st = assistant_stored.st,
                !.response =
                    [status_code |-> 200,
                     conversation_id |-> conversation_id,
                     message |-> assistant_message[1],
                     tool_calls |-> agent_result.tool_calls]] )))

\* Steps 5 to 8 of chat: store both messages, commit, build the response.
\* A reply of None cannot be stored (messages.content is NOT NULL).
ChatStoreAndCommit(st, req, conversation_id, agent_result, info) ==
    Let(store_message(st, conversation_id, req.user_id, "user", req.message),
        LAMBDA user_stored :
    Let(AssistantMessageOf(agent_result), LAMBDA assistant_message :
    Let(store_message(user_stored.st, conversation_id, req.user_id,
                      "assistant", assistant_message[1]),
        LAMBDA assistant_stored :
    Let([info EXCEPT !.agent_result = Some(agent_result)],
        LAMBDA with_result :
        IF user_stored.raised
        THEN TurnFailed(user_stored.st, user_stored.exc, with_result)
        ELSE IF assistant_message = None
        THEN TurnFailed(user_stored.st,
                        Exc("IntegrityError",
                            << "null value in column content" >>),
                        with_result)
        ELSE IF assistant_stored.raised
        THEN TurnFailed(assistant_stored.st, assistant_stored.exc,
                        with_result)
        ELSE [with_result EXCEPT
                !.committed = TRUE,
                !.st = assistant_stored.st,
                !.response =
                    [status_code |-> 200,
                     conversation_id |-> conversation_id,
                     message |-> assistant_message[1],
                     tool_calls |-> agent_result.tool_calls]] ))))

\* `except Exception as openai_error` round AgentRunner() and run():
\* divert to the mock runner on a capacity text, re-raise otherwise.
ChatAgentFailed(st, exc, req, conversation_id, msgs, info) ==
    Let(MockAgentRunner_run(st, req.user_id, msgs), LAMBDA mock :
        LET count == IF info.mock_runner = None THEN 0
                     ELSE info.mock_runner[1]
            agent_result ==
                [mock.result EXCEPT !.message = @ \o FALLBACK_NOTE]
            diverted == [info EXCEPT
                           !.fallback = TRUE,
                           !.caught = Some(exc),
                           !.dispatched = mock.dispatched,
                           !.mock_runner =
                               Some(IF mock.counted THEN count + 1
                                    ELSE count)]
        IN  IF IsCapacityError(exc.text)
            THEN ChatStoreAndCommit(mock.st, req, conversation_id,
                                    agent_result, diverted)
            ELSE TurnFailed(st, exc, [info EXCEPT !.caught = Some(exc)]))

(***************************************************************************)
(* The in-memory task service of the console application                   *)
(* (to_do_phase_1/src/services/todo_service.py, models/task.py).  `svc`    *)
(* is the TodoService object: _tasks, _next_id, and the clock that         *)
(* datetime.now reads.                                                     *)
(***************************************************************************)
TODO_TITLE_MAX == 100

title_empty == Exc("ValueError", << "Task title cannot be empty" >>)

title_too_long ==
    Exc("ValueError", << "Task title cannot exceed 100 characters" >>)

\* variant: the id is taken before the title is validated
TodoService_create_id_first(svc, title, description) ==
    LET stripped == strip(title)
        task == [id |-> svc._next_id, title |-> stripped,
                 description |-> strip(description), completed |-> FALSE,
                 created_at |-> svc.now, updated_at |-> svc.now + 1]
        taken == [svc EXCEPT !._next_id = @ + 1]
    IN  IF stripped = << >>
        THEN Raised(taken, title_empty)
        ELSE IF Len(stripped) > TODO_TITLE_MAX
        THEN Raised(taken, title_too_long)
        ELSE Returned([svc EXCEPT !._tasks = @ \cup {task},
                                  !._next_id = @ + 1,
                                  !.now = @ + 2],
                      [task |-> Some(task)])

\* Task(...) validates the stripped title in __post_init__, before the
\* task is kept and _next_id is advanced
TodoService_create(svc, title, description) ==
    LET stripped == strip(title)
        task == [id |-> svc._next_id, title |-> stripped,
                 description |-> strip(description), completed |-> FALSE,
                 created_at |-> svc.now, updated_at |-> svc.now + 1]
    IN  IF stripped = << >>
        THEN Raised(svc, title_empty)
        ELSE IF Len(stripped) > TODO_TITLE_MAX
        THEN Raised(svc, title_too_long)
        ELSE Returned([svc EXCEPT !._tasks = @ \cup {task},
                                  !._next_id = @ + 1,
                                  !.now = @ + 2],
                      [task |-> Some(task)])

\* self._tasks.get(task_id), as a set of at most one task
TodoService_get(svc, task_id) == {t \in svc._tasks : t.id = task_id}

\* the task with the fields of one update call applied; title, description
\* and completed are optionals
Updated(task, title, description, completed, now) ==
    [task EXCEPT
        !.title = IF title = None THEN @ ELSE strip(title[1]),
        !.description = IF description = None THEN @
                        ELSE strip(description[1]),
        !.completed = IF completed = None THEN @ ELSE completed[1],
        !.updated_at = now]

\* variant: description and completed are assigned before the title is
\* validated
TodoService_update_title_last(svc, task_id, title, description, completed) ==
    LET found == TodoService_get(svc, task_id)
        task == CHOOSE t \in found : TRUE
        partly == Updated(task, None, description, completed,
                          task.updated_at)
    IN  IF found = {}
        THEN Returned(svc, [task |-> None])
        ELSE IF title # None /\ strip(title[1]) = << >>
        THEN Raised([svc EXCEPT !._tasks = (@ \ found) \cup {partly}],
                    title_empty)
        ELSE IF title # None /\ Len(strip(title[1])) > TODO_TITLE_MAX
        THEN Raised([svc EXCEPT !._tasks = (@ \ found) \cup {partly}],
                    title_too_long)
        ELSE Returned(
                 [svc EXCEPT
                    !._tasks = (@ \ found)
                        \cup {Updated(task, title, description, completed,
                                      svc.now)},
                    !.now = @ + 1],
                 [task |-> Some(Updated(task, title, description, completed,
                                        svc.now))])

TodoService_update(svc, task_id, title, description, completed) ==
    LET found == TodoService_get(svc, task_id)
        task == CHOOSE t \in found : TRUE
    IN  IF found = {}
        THEN Returned(svc, [task |-> None])
        ELSE IF title # None /\ strip(title[1]) = << >>
        THEN Raised(svc, title_empty)
        ELSE IF title # None /\ Len(strip(title[1])) > TODO_TITLE_MAX
        THEN Raised(svc, title_too_long)
        ELSE Returned(
                 [svc EXCEPT
                    !._tasks = (@ \ found)
                        \cup {Updated(task, title, description, completed,
                                      svc.now)},
                    !.now = @ + 1],
                 [task |-> Some(Updated(task, title, description, completed,
                                        svc.now))])

TodoService_toggle_complete(svc, task_id) ==
    LET found == TodoService_get(svc, task_id)
        task == CHOOSE t \in found : TRUE
        toggled == [task EXCEPT !.completed = ~@, !.updated_at = svc.now]
    IN  IF found = {}
        THEN Returned(svc, [task |-> None])
        ELSE Returned([svc EXCEPT !._tasks = (@ \ found) \cup {toggled},
                                  !.now = @ + 1],
                      [task |-> Some(toggled)])

TodoService_delete(svc, task_id) ==
    LET found == TodoService_get(svc, task_id)
    IN  IF found = {}
        THEN Returned(svc, [deleted |-> FALSE])
        ELSE Returned([svc EXCEPT !._tasks = @ \ found], [deleted |-> TRUE])

(***************************************************************************)
(* Inputs: the users' messages and the answers of the reasoning engine.    *)
(***************************************************************************)
buy_milk == <<"b", "u", "y", " ", "m", "i", "l", "k">>
msg_add == <<"A", "d", "d", " ", "t", "a", "s", "k", " ", "t", "o", " ", "b", "u", "y", " ", "m", "i", "l", "k">>
msg_delete == <<"d", "e", "l", "e", "t", "e", " ", "t", "a", "s", "k", " ", "1">>
err_rate == <<"R", "a", "t", "e", " ", "l", "i", "m", "i", "t", " ", "r", "e", "a", "c", "h", "e", "d">>
err_quota == <<"i", "n", "s", "u", "f", "f", "i", "c", "i", "e", "n", "t", "_", "q", "u", "o", "t", "a">>
err_429 == <<"E", "r", "r", "o", "r", " ", "c", "o", "d", "e", ":", " ", "4", "2", "9">>
err_connection == <<"C", "o", "n", "n", "e", "c", "t", "i", "o", "n", " ", "e", "r", "r", "o", "r">>

walk_dog == <<"w", "a", "l", "k", " ", "d", "o", "g">>
msg_list == <<"s", "h", "o", "w", " ", "m", "y", " ", "t", "a", "s", "k", "s">>
msg_complete == <<"c", "o", "m", "p", "l", "e", "t", "e", " ", "t", "a", "s", "k", " ", "1">>
msg_update == <<"u", "p", "d", "a", "t", "e", " ", "t", "a", "s", "k", " ", "1", " ", "t", "o", " ", "w", "a", "l", "k", " ", "d", "o", "g">>
msg_help == <<"h", "e", "l", "p">>
msg_hello == <<"h", "e", "l", "l", "o">>
msg_delete_all == <<"d", "e", "l", "e", "t", "e", " ", "a", "l", "l", " ", "t", "a", "s", "k", "s">>
msg_add_help == <<"A", "d", "d", " ", "h", "e", "l", "p", " ", "t", "o", " ", "b", "u", "y", " ", "m", "i", "l", "k">>
msg_finish_it == <<"f", "i", "n", "i", "s", "h", " ", "i", "t">>
msg_remove_zero == <<"r", "e", "m", "o", "v", "e", " ", "t", "a", "s", "k", " ", "0">>
msg_edit_short == <<"e", "d", "i", "t", " ", "t", "a", "s", "k", " ", "2", " ", "t", "o", " ", "a", "b">>
msg_rename == <<"r", "e", "n", "a", "m", "e", " ", "t", "a", "s", "k", " ", "1">>
msg_add_nothing == <<"a", "d", "d">>

UserMessages == {msg_add, msg_delete}

EngineErrors == {err_rate, err_quota, err_429, err_connection}

EngineTexts == {Some(<< "Done." >>), None}

\* the function part of a tool call the engine may request
ToolRequests ==
    { [name |-> "add_task",
       arguments |-> Json([title |-> buy_milk, user_id |-> "u2"])],
      [name |-> "complete_task", arguments |-> Json([task_id |-> 1])],
      [name |-> "rate_task", arguments |-> Json(EmptyDict)],
      [name |-> "add_task", arguments |-> Json(EmptyDict)],
      [name |-> "list_tasks", arguments |-> BadJson] }

\* the first tool call of a response that requests several
LeadingRequests ==
    { [name |-> "complete_task", arguments |-> Json([task_id |-> 1])],
      [name |-> "rate_task", arguments |-> Json(EmptyDict)] }

\* what the engine may request after the first tool call of a response
FollowUps ==
    { [name |-> "add_task",
       arguments |-> Json([title |-> buy_milk, user_id |-> "u2"])] }

ToolCall(id, function) == [id |-> id, type |-> "function", function |-> function]

\* the lists of tool calls of one engine response
ToolCallLists ==
    { << ToolCall(1, first) >> : first \in ToolRequests }
    \cup UNION { { [i \in 1..n |->
                       ToolCall(i, IF i = 1 THEN first ELSE rest[i])] :
                     first \in LeadingRequests, rest \in [1..n -> FollowUps] }
                 : n \in 2..MaxCallsPerStep }

EngineResponses ==
    { [content |-> text, tool_calls |-> << >>] : text \in EngineTexts }
    \cup { [content |-> None, tool_calls |-> calls] : calls \in ToolCallLists }

(***************************************************************************)
(* State.                                                                  *)
(***************************************************************************)
VARIABLES
    OPENAI_API_KEY,  \* whether the environment variable is set
    db,              \* committed rows: tasks, conversations, messages
    st,              \* the session: rows it sees, id sequences, clock
                     \* (and how far it moves between two reads), and
                     \* whether its connection is alive
    _mock_runner,    \* the singleton's conversation_count, None before use
    pc,              \* "idle", "reasoning", "done" or "failed"
    steps,           \* chat requests and reasoning calls so far
    request,         \* user_id, message, conversation_id of the turn
    conversation,    \* id of the turn's conversation, 0 if none
    messages,        \* history + the new user message
    run,             \* locals of AgentRunner.run
    engine_calls,    \* the message array of each reasoning call of the run
    engine_replies,  \* what each reasoning call answered
    turn,            \* how the turn ended
    db_before,       \* the committed rows when the turn began
    call,            \* the last call made outside a chat turn, and its outcome
    issued,          \* the task ids add_task returned; those reported deleted
    served,          \* the last call of the conversation service, its
                     \* outcome, and the messages stored so far in call order
    todo,            \* the console application's TodoService, its last
                     \* call, and the id each create returned, in call
                     \* order (0 for a create that raised)
    flights          \* the chat requests under way at the same time, each
                     \* with its own session: where it is in chat, its
                     \* locals, and its uncommitted changes

vars == << OPENAI_API_KEY, db, st, _mock_runner, pc, steps, request, conversation, messages,
           run, engine_calls, engine_replies, turn, db_before, call, issued,
           served, todo, flights >>

NoRows == [tasks |-> {}, conversations |-> {}, messages |-> {}]

NewRun(msgs) ==
    [full_messages |->
         << [role |-> "system", content |-> SYSTEM_PROMPT] >> \o msgs,
     tool_calls_made |-> << >>,
     iterations |-> 0,
     returned |-> FALSE,
     result |-> NoResult,
     raised |-> FALSE,
     exc |-> NoExc,
     registry_log |-> << >>]

NewTurn(session, mock_runner) ==
    [committed |-> FALSE, st |-> session, exc |-> NoExc,
     response |-> [status_code |-> 0], agent_result |-> None,
     fallback |-> FALSE, caught |-> None, dispatched |-> << >>,
     mock_runner |-> mock_runner]

WithSt(r, session) ==
    [k \in DOMAIN r \cup {"st"} |-> IF k = "st" THEN session ELSE r[k]]

Without(r, keys) == [k \in DOMAIN r \ keys |-> r[k]]

\* the record kept of a call: who called, the session before the call,
\* what reached the registry, and what the fallback responder replied
NoCall(session) ==
    [caller |-> "none", user_id |-> "u1", message |-> << >>,
     before |-> session, dispatched |-> << >>, reply |-> << >>,
     tool_calls |-> << >>]

\* the record kept of a call of the conversation service: the operation
\* and its arguments, the session before it, and how it ended
NoService(session) ==
    [op |-> "none", user_id |-> "u1", conversation_id |-> None,
     role |-> "user", content |-> << >>, limit |-> 0, before |-> session,
     raised |-> FALSE, exc |-> NoExc, result |-> NoResult, stored |-> << >>]

\* the requests that can be under way at the same time
Slots == {1, 2}

NoDelta == [added |-> NoRows, removed |-> NoRows]

\* a request slot nobody uses: the locals of chat, the session's
\* uncommitted changes, the ids of the messages the turn stored, and what
\* the last step produced, as it was (`seen`) and as it would have been
\* with nothing but the owner's rows in the store (`alone`)
NoFlight ==
    [pc |-> "idle",
     request |-> [user_id |-> "u1", message |-> << >>,
                  conversation_id |-> None],
     conversation |-> 0, messages |-> << >>, run |-> NewRun(<< >>),
     agent_result |-> None, fallback |-> FALSE, exc |-> NoExc,
     response |-> [status_code |-> 0], stored |-> << >>,
     delta |-> NoDelta, seen |-> [step |-> "none"],
     alone |-> [step |-> "none"]]

\* the record kept of a call of the TodoService: the method and its
\* arguments, the service before the call, and how the call ended
NoTodoCall ==
    [op |-> "none", task_id |-> 0, title |-> None, description |-> None,
     completed |-> None,
     before |-> [_tasks |-> {}, _next_id |-> 1, now |-> 1],
     raised |-> FALSE, exc |-> NoExc, result |-> NoResult]

EmptyStore ==
    [tasks |-> {}, conversations |-> {}, messages |-> {},
     task_seq |-> 1, conversation_seq |-> 1, message_seq |-> 1,
     clock |-> 1, tick |-> 1, connected |-> TRUE]

\* no request is under way and nothing has been called yet
Quiet ==
    /\ _mock_runner = None
    /\ pc = "idle"
    /\ steps = 0
    /\ request = [user_id |-> "u1", message |-> << >>, conversation_id |-> None]
    /\ conversation = 0
    /\ messages = << >>
    /\ run = NewRun(<< >>)
    /\ engine_calls = << >>
    /\ engine_replies = << >>
    /\ turn = Without(NewTurn(st, None), {"st", "mock_runner"})
    /\ db_before = NoRows
    /\ call = NoCall(st)
    /\ issued = [added |-> {}, deleted |-> {}]
    /\ served = NoService(st)
    /\ todo = [service |-> [_tasks |-> {}, _next_id |-> 1, now |-> 1],
               calls |-> 0,
               last |-> NoTodoCall,
               created |-> << >>]
    /\ flights = [f \in Slots |-> NoFlight]

Init ==
    /\ OPENAI_API_KEY \in BOOLEAN
    /\ db = NoRows
    /\ st = EmptyStore
    /\ Quiet

\* the request ends: the session closes and the outcome is recorded
EndTurn(outcome) ==
    \E o \in {outcome} :
    \E closed \in {get_session(db, o.st, ~o.committed)} :
        /\ o.st.task_seq <= MaxTasks + 1
        /\ db' = closed.db
        /\ st' = closed.st
        /\ _mock_runner' = o.mock_runner
        /\ pc' = IF o.committed THEN "done" ELSE "failed"
        /\ turn' = Without(o, {"st", "mock_runner"})

\* POST /api/{user_id}/chat up to the first reasoning call
Chat(user_id, message, conversation_id) ==
    /\ pc # "reasoning"
    /\ steps < MaxSteps
    /\ \E c \in {get_or_create_conversation(st, user_id, conversation_id)} :
       \E ordered \in CreatedDescOrders(
                          IF c.raised THEN {}
                          ELSE {m \in c.st.messages :
                                   m.conversation_id = c.result.id}) :
       LET history == get_conversation_messages_selected(
                          c.st, c.result.id, user_id,
                          Limit(ordered, HISTORY_LIMIT))
           msgs == history.result.list
                   \o << [role |-> "user", content |-> message] >>
           req == [user_id |-> user_id, message |-> message,
                   conversation_id |-> conversation_id]
           info == NewTurn(st, _mock_runner)
       IN  /\ steps' = steps + 1
           /\ UNCHANGED << OPENAI_API_KEY, call, issued, served,
                       todo, flights >>
           /\ request' = req
           /\ db_before' = db
           /\ engine_calls' = << >>
           /\ engine_replies' = << >>
           /\ IF c.raised
              THEN /\ EndTurn(TurnFailed(c.st, c.exc, info))
                   /\ conversation' = 0
                   /\ messages' = << >>
                   /\ run' = NewRun(<< >>)
              ELSE IF ~OPENAI_API_KEY
              THEN /\ EndTurn(ChatAgentFailed(c.st,
                                  Exc("ValueError", txt_no_api_key), req,
                                  c.result.id, msgs, info))
                   /\ conversation' = c.result.id
                   /\ messages' = msgs
                   /\ run' = NewRun(<< >>)
              ELSE /\ conversation' = c.result.id
                   /\ messages' = msgs
                   /\ run' = NewRun(msgs)
                   /\ st' = c.st
                   /\ pc' = "reasoning"
                   /\ turn' = Without(info, {"st", "mock_runner"})
                   /\ UNCHANGED << db, _mock_runner >>

\* what chat does once run() has returned or raised
AfterRun(run_state) ==
    \E r \in {run_state} :
    LET info == NewTurn(r.st, _mock_runner)
    IN  IF r.raised
        THEN EndTurn(ChatAgentFailed(r.st, r.exc, request, conversation,
                                     messages, info))
        ELSE IF r.returned
        THEN EndTurn(ChatStoreAndCommit(r.st, request, conversation,
                                        r.result, info))
        ELSE /\ r.st.task_seq <= MaxTasks + 1
             /\ st' = r.st
             /\ UNCHANGED << db, _mock_runner, pc, turn >>

\* a reasoning call answers: one trip round the loop of AgentRunner.run
EngineResponds(response) ==
    /\ pc = "reasoning"
    /\ steps < MaxSteps
    /\ \E r \in {RunIteration(WithSt(run, st), response, request.user_id,
                               MAX_ITERATIONS)} :
        /\ steps' = steps + 1
        /\ engine_calls' = Append(engine_calls, run.full_messages)
        /\ engine_replies' =
               Append(engine_replies,
                      [raised |-> FALSE, response |-> response,
                       error |-> << >>])
        /\ run' = Without(r, {"st"})
        /\ AfterRun(r)
        /\ UNCHANGED << OPENAI_API_KEY, request, conversation, messages,
                       db_before, call, issued, served,
                       todo, flights >>

\* a reasoning call fails: client.chat.completions.create raises
EngineRaises(error) ==
    /\ pc = "reasoning"
    /\ steps < MaxSteps
    /\ \E r \in {[WithSt(run, st) EXCEPT !.iterations = @ + 1,
                                          !.raised = TRUE,
                                          !.exc = Exc("APIError", error)]} :
        /\ steps' = steps + 1
        /\ engine_calls' = Append(engine_calls, run.full_messages)
        /\ engine_replies' =
               Append(engine_replies,
                      [raised |-> TRUE,
                       response |-> [content |-> None, tool_calls |-> << >>],
                       error |-> error])
        /\ run' = Without(r, {"st"})
        /\ AfterRun(r)
        /\ UNCHANGED << OPENAI_API_KEY, request, conversation, messages,
                       db_before, call, issued, served,
                       todo, flights >>

ConversationIds == {None, Some(1)}

Next ==
    \/ \E user_id \in Users, message \in UserMessages,
          conversation_id \in ConversationIds :
           Chat(user_id, message, conversation_id)
    \/ \E response \in EngineResponses : EngineResponds(response)
    \/ \E error \in EngineErrors : EngineRaises(error)

Spec == Init /\ [][Next]_vars

(***************************************************************************)
(* The registry and the fallback responder used on their own, as the       *)
(* tool tests and MockAgentRunner.run use them: any caller, any arguments  *)
(* the signatures accept, in any order, within one database session.       *)
(***************************************************************************)
a_description == << "two litres, semi-skimmed" >>

TaskIds == 1..MaxTasks

\* execute_mcp_tool(tool_name, session, **kwargs) with well-formed kwargs
DirectCalls ==
    { [tool |-> "add_task", kwargs |-> [user_id |-> u, title |-> t]] :
        u \in Users, t \in {buy_milk, << >>} }
    \cup { [tool |-> "list_tasks", kwargs |-> [user_id |-> u, status |-> s]] :
             u \in Users, s \in {"all", "pending", "completed"} }
    \cup { [tool |-> name, kwargs |-> [user_id |-> u, task_id |-> n]] :
             name \in {"complete_task", "delete_task", "update_task"},
             u \in Users, n \in TaskIds }
    \cup { [tool |-> "update_task",
            kwargs |-> [user_id |-> u, task_id |-> n, title |-> walk_dog,
                        description |-> Some(a_description)]] :
             u \in Users, n \in TaskIds }
    \cup { [tool |-> "rate_task", kwargs |-> [user_id |-> u, task_id |-> 1]] :
             u \in Users }

\* calls that update one field at a time: either owner adds and updates,
\* the first one completes
UpdateCalls ==
    { [tool |-> "add_task", kwargs |-> [user_id |-> u, title |-> buy_milk]] :
        u \in Users }
    \cup { [tool |-> "complete_task",
            kwargs |-> [user_id |-> "u1", task_id |-> n]] : n \in TaskIds }
    \cup { [tool |-> "update_task",
            kwargs |-> [user_id |-> u, task_id |-> n, title |-> walk_dog]] :
             u \in Users, n \in TaskIds }
    \cup { [tool |-> "update_task",
            kwargs |-> [user_id |-> u, task_id |-> n,
                        description |-> Some(a_description)]] :
             u \in Users, n \in TaskIds }

FallbackMessages ==
    { msg_add, msg_list, msg_complete, msg_delete, msg_update, msg_help,
      msg_hello, msg_delete_all, msg_add_help, msg_finish_it,
      msg_remove_zero, msg_edit_short, msg_rename, msg_add_nothing }

\* the ids add_task has returned and those delete_task has reported deleted
RECURSIVE Issue(_, _)
Issue(known, dispatched) ==
    IF dispatched = << >> THEN known
    ELSE LET d == Head(dispatched)
             status == IF ~d.raised /\ "status" \in DOMAIN d.result
                       THEN d.result.status ELSE "none"
             next ==
                 CASE status = "created" ->
                        [known EXCEPT !.added = @ \cup
                            {[task_id |-> d.result.task_id,
                              user_id |-> d.kwargs.user_id]}]
                   [] status = "deleted" ->
                        [known EXCEPT !.deleted = @ \cup {d.result.task_id}]
                   [] OTHER -> known
         IN  Issue(next, Tail(dispatched))

\* one call of execute_mcp_tool from outside the chat turn
CallTool(tool_name, kwargs) ==
    \E out \in {execute_mcp_tool(tool_name, st, kwargs)} :
    \E log \in {<< Dispatch("direct", tool_name, kwargs, out) >>} :
        /\ out.st.task_seq <= MaxTasks + 1
        /\ st' = out.st
        /\ call' = [caller |-> "direct", user_id |-> kwargs.user_id,
                    message |-> << >>, before |-> st, dispatched |-> log,
                    reply |-> << >>, tool_calls |-> << >>]
        /\ issued' = Issue(issued, log)
        /\ UNCHANGED << OPENAI_API_KEY, db, _mock_runner, pc, steps, request,
                        conversation, messages, run, engine_calls,
                        engine_replies, turn, db_before, served,
                       todo, flights >>

\* one call of MockAgentRunner.run on the singleton, with `message` as the
\* latest user message
Fallback(user_id, message) ==
    LET count == IF _mock_runner = None THEN 0 ELSE _mock_runner[1]
    IN  /\ count < MaxFallbackCalls
        /\ \E mock \in {MockAgentRunner_run(st, user_id,
                           << [role |-> "user", content |-> message] >>)} :
            /\ mock.st.task_seq <= MaxTasks + 1
            /\ st' = mock.st
            /\ _mock_runner' = Some(IF mock.counted THEN count + 1 ELSE count)
            /\ call' = [caller |-> "fallback", user_id |-> user_id,
                        message |-> message, before |-> st,
                        dispatched |-> mock.dispatched,
                        reply |-> mock.result.message,
                        tool_calls |-> mock.result.tool_calls]
            /\ issued' = Issue(issued, mock.dispatched)
            /\ UNCHANGED << OPENAI_API_KEY, db, pc, steps, request,
                            conversation, messages, run, engine_calls,
                            engine_replies, turn, db_before, served,
                       todo, flights >>

RegistryInit == Init /\ OPENAI_API_KEY

RegistryNext == \E c \in DirectCalls : CallTool(c.tool, c.kwargs)

RegistrySpec == RegistryInit /\ [][RegistryNext]_vars

UpdateNext == \E c \in UpdateCalls : CallTool(c.tool, c.kwargs)

UpdateSpec == RegistryInit /\ [][UpdateNext]_vars

(***************************************************************************)
(* The registry over a session whose connection may be lost: the tools     *)
(* called directly and from one pass of the loop over a tool call.         *)
(***************************************************************************)
FailureCalls ==
    { [tool |-> "add_task", kwargs |-> [user_id |-> u, title |-> buy_milk]] :
        u \in Users }
    \cup { [tool |-> "list_tasks", kwargs |-> [user_id |-> u, status |-> "all"]] :
             u \in Users }
    \cup { [tool |-> name, kwargs |-> [user_id |-> u, task_id |-> 1]] :
             name \in {"complete_task", "delete_task", "update_task"},
             u \in Users }
    \cup { [tool |-> "update_task",
            kwargs |-> [user_id |-> u, task_id |-> 1, title |-> walk_dog]] :
             u \in Users }

\* the database connection of the session drops; every later statement of
\* the session raises
ConnectionLost ==
    /\ st.connected
    /\ st' = [st EXCEPT !.connected = FALSE]
    /\ UNCHANGED << OPENAI_API_KEY, db, _mock_runner, pc, steps, request,
                    conversation, messages, run, engine_calls,
                    engine_replies, turn, db_before, call, issued, served,
                       todo, flights >>

\* one pass of the loop body of AgentRunner.run over a tool call the
\* engine requested for user_id
LoopCall(tool_name, arguments, user_id) ==
    \E r \in {ExecuteToolCall(WithSt(NewRun(<< >>), st),
                               ToolCall(1, [name |-> tool_name,
                                            arguments |-> Json(arguments)]),
                               user_id)} :
        /\ r.st.task_seq <= MaxTasks + 1
        /\ st' = r.st
        /\ call' = [caller |-> "loop", user_id |-> user_id,
                    message |-> << >>, before |-> st,
                    dispatched |-> r.registry_log, reply |-> << >>,
                    tool_calls |-> r.tool_calls_made]
        /\ issued' = Issue(issued, r.registry_log)
        /\ UNCHANGED << OPENAI_API_KEY, db, _mock_runner, pc, steps, request,
                        conversation, messages, run, engine_calls,
                        engine_replies, turn, db_before, served,
                       todo, flights >>

FailureNext ==
    \/ \E c \in FailureCalls : CallTool(c.tool, c.kwargs)
    \/ \E c \in FailureCalls :
           LoopCall(c.tool, Without(c.kwargs, {"user_id"}), c.kwargs.user_id)
    \/ ConnectionLost

FailureSpec == RegistryInit /\ [][FailureNext]_vars

FallbackNext ==
    \E user_id \in Users, message \in FallbackMessages :
        Fallback(user_id, message)

FallbackSpec == RegistryInit /\ [][FallbackNext]_vars

(***************************************************************************)
(* Chat turns one after another while the clock may stand still between    *)
(* two reads (datetime.utcnow has a finite resolution), so that messages   *)
(* stored right after one another can carry the same created_at.           *)
(***************************************************************************)
ReplayResponses ==
    { [content |-> Some(<< "Done." >>), tool_calls |-> << >>],
      [content |-> None,
       tool_calls |-> << ToolCall(1, [name |-> "add_task",
                                      arguments |->
                                          Json([title |-> buy_milk])]) >>] }

ClockUnchanged ==
    UNCHANGED << OPENAI_API_KEY, db, _mock_runner, pc, steps, request,
                 conversation, messages, run, engine_calls, engine_replies,
                 turn, db_before, call, issued, served, todo,
                 flights >>

\* while a turn is under way: from now on two reads of the clock give the
\* same instant
ClockStalls ==
    /\ pc = "reasoning"
    /\ st.tick = 1
    /\ st' = [st EXCEPT !.tick = 0]
    /\ ClockUnchanged

\* between two turns: the clock has moved on
ClockResumes ==
    /\ pc # "reasoning"
    /\ st.tick = 0
    /\ st' = [st EXCEPT !.tick = 1, !.clock = @ + 1]
    /\ ClockUnchanged

ReplayNext ==
    \/ \E user_id \in Users, message \in UserMessages,
          conversation_id \in ConversationIds :
           Chat(user_id, message, conversation_id)
    \/ \E response \in ReplayResponses : EngineResponds(response)
    \/ ClockStalls
    \/ ClockResumes

ReplaySpec == RegistryInit /\ [][ReplayNext]_vars

(***************************************************************************)
(* Chat requests under way at the same time (routes/chat.py, chat; db.py,  *)
(* get_session).  Every request has a session of its own on a pooled       *)
(* connection: it reads the committed rows and its own uncommitted         *)
(* changes, a row it changed stays locked until it commits or rolls back,  *)
(* and each await is a point where another request can run.  The id        *)
(* sequences, the clock and the MockAgentRunner singleton are shared by    *)
(* all requests.  `db` holds the committed rows, and so does `st`, with    *)
(* the sequences and the clock.                                            *)
(***************************************************************************)
Tables == {"tasks", "conversations", "messages"}

\* the rows a session sees: the committed ones with its own changes
View(committed, delta) ==
    [t \in Tables |-> (committed[t] \ delta.removed[t]) \cup delta.added[t]]

Session(store, committed, delta) ==
    [store EXCEPT !.tasks = View(committed, delta).tasks,
                  !.conversations = View(committed, delta).conversations,
                  !.messages = View(committed, delta).messages]

\* the uncommitted changes of a session that sees `rows`
Diff(rows, committed) ==
    [added |-> [t \in Tables |-> rows[t] \ committed[t]],
     removed |-> [t \in Tables |-> committed[t] \ rows[t]]]

\* the session with nothing but the rows of one owner
OwnerOnly(session, user_id) ==
    [session EXCEPT !.tasks = {r \in @ : r.user_id = user_id},
                    !.conversations = {r \in @ : r.user_id = user_id},
                    !.messages = {r \in @ : r.user_id = user_id}]

\* the rows of the other owners
Foreign(session, user_id) ==
    [t \in Tables |-> {r \in Rows(session)[t] : r.user_id # user_id}]

\* where a step of chat leaves the request, its session and the singleton
Outcome(fl, session, runner) ==
    [flight |-> fl, st |-> session, runner |-> runner]

\* the two outer except clauses of chat
chat_failed(fl, exc) ==
    [fl EXCEPT !.pc = "failed", !.exc = exc, !.response = ErrorResponse(exc)]

\* steps 1 to 3 of chat: the conversation, its history, the message array
chat_begin(fl, session, runner) ==
    Let(get_or_create_conversation(session, fl.request.user_id,
                                   fl.request.conversation_id),
        LAMBDA c :
        IF c.raised
        THEN Outcome(chat_failed(fl, c.exc), c.st, runner)
        ELSE Let(get_conversation_messages(c.st, c.result.id,
                                           fl.request.user_id,
                                           HISTORY_LIMIT).result.list
                 \o << [role |-> "user", content |-> fl.request.message] >>,
                 LAMBDA msgs :
                 Outcome([fl EXCEPT !.pc = "reasoning",
                                    !.conversation = c.result.id,
                                    !.messages = msgs,
                                    !.run = NewRun(msgs)],
                         c.st, runner)))

\* variant: the singleton greets the first request it serves
chat_agent_failed_greets_once(fl, session, runner, exc) ==
    Let(MockAgentRunner_run(session, fl.request.user_id, fl.messages),
        LAMBDA mock :
        IF IsCapacityError(exc.text)
        THEN Outcome(
                 [fl EXCEPT
                    !.pc = "store_user",
                    !.fallback = TRUE,
                    !.agent_result =
                        Some([mock.result EXCEPT
                                !.message =
                                    (IF runner = None THEN GREETING
                                     ELSE << >>) \o @ \o FALLBACK_NOTE])],
                 mock.st,
                 Some((IF runner = None THEN 0 ELSE runner[1])
                      + (IF mock.counted THEN 1 ELSE 0)))
        ELSE Outcome(chat_failed(fl, exc), session, runner))

\* `except Exception as openai_error` round run(): on a capacity text the
\* singleton mock runner answers, anything else is raised again
chat_agent_failed(fl, session, runner, exc) ==
    Let(MockAgentRunner_run(session, fl.request.user_id, fl.messages),
        LAMBDA mock :
        IF IsCapacityError(exc.text)
        THEN Outcome(
                 [fl EXCEPT
                    !.pc = "store_user",
                    !.fallback = TRUE,
                    !.agent_result =
                        Some([mock.result EXCEPT
                                !.message = @ \o FALLBACK_NOTE])],
                 mock.st,
                 Some((IF runner = None THEN 0 ELSE runner[1])
                      + (IF mock.counted THEN 1 ELSE 0)))
        ELSE Outcome(chat_failed(fl, exc), session, runner))

\* step 4 of chat, one reasoning call of AgentRunner.run and its tools
chat_run(fl, session, runner, response) ==
    Let(RunIteration(WithSt(fl.run, session), response, fl.request.user_id,
                     MAX_ITERATIONS),
        LAMBDA r :
        Let([fl EXCEPT !.run = Without(r, {"st"})], LAMBDA ran :
        IF r.raised
        THEN chat_agent_failed(ran, r.st, runner, r.exc)
        ELSE IF r.returned
        THEN Outcome([ran EXCEPT !.pc = "store_user",
                                 !.agent_result = Some(r.result)],
                     r.st, runner)
        ELSE Outcome(ran, r.st, runner)))

\* step 4 of chat when client.chat.completions.create raises
chat_run_raised(fl, session, runner, error) ==
    chat_agent_failed(
        [fl EXCEPT !.run.iterations = @ + 1, !.run.raised = TRUE,
                   !.run.exc = Exc("APIError", error)],
        session, runner, Exc("APIError", error))

\* step 5 of chat, the user's message, up to the first flush of
\* store_message: the row is inserted
chat_store_user(fl, session, runner) ==
    Let(store_message_insert(session, fl.conversation, fl.request.user_id,
                             "user", fl.request.message),
        LAMBDA inserted :
        IF inserted.raised
        THEN Outcome(chat_failed(fl, inserted.exc), inserted.st, runner)
        ELSE Outcome([fl EXCEPT !.pc = "touch_user",
                                !.stored = Append(@, inserted.result.id)],
                     inserted.st, runner))

\* the rest of store_message: the conversation's updated_at
chat_touch_user(fl, session, runner) ==
    Outcome([fl EXCEPT !.pc = "store_reply"],
            store_message_touch(session, fl.conversation), runner)

\* variant: the commit is refused when the conversation holds a message
\* the turn neither read nor wrote
chat_reply_and_commit_if_unchanged(fl, session, runner) ==
    Let(AssistantMessageOf(Head(fl.agent_result)), LAMBDA assistant_message :
    Let(store_message(session, fl.conversation, fl.request.user_id,
                      "assistant", assistant_message[1]),
        LAMBDA stored :
        IF assistant_message = None
        THEN Outcome(chat_failed(fl, Exc("IntegrityError",
                                 << "null value in column content" >>)),
                     session, runner)
        ELSE IF stored.raised
        THEN Outcome(chat_failed(fl, stored.exc), stored.st, runner)
        ELSE IF Cardinality({m \in session.messages :
                                m.conversation_id = fl.conversation})
                    # Len(fl.messages) - 1 + Len(fl.stored)
        THEN Outcome(chat_failed(fl, Exc("StaleDataError",
                                 << "conversation was changed" >>)),
                     session, runner)
        ELSE Outcome(
                 [fl EXCEPT
                    !.pc = "done",
                    !.stored = Append(@, stored.result.id),
                    !.response =
                        [status_code |-> 200,
                         conversation_id |-> fl.conversation,
                         message |-> assistant_message[1],
                         tool_calls |-> Head(fl.agent_result).tool_calls]],
                 stored.st, runner)))

\* steps 6 to 8 of chat: the assistant's reply is stored, the session
\* commits, the response is built.  A reply of None cannot be stored.
chat_reply_and_commit(fl, session, runner) ==
    Let(AssistantMessageOf(Head(fl.agent_result)), LAMBDA assistant_message :
    Let(store_message(session, fl.conversation, fl.request.user_id,
                      "assistant", assistant_message[1]),
        LAMBDA stored :
        IF assistant_message = None
        THEN Outcome(chat_failed(fl, Exc("IntegrityError",
                                 << "null value in column content" >>)),
                     session, runner)
        ELSE IF stored.raised
        THEN Outcome(chat_failed(fl, stored.exc), stored.st, runner)
        ELSE Outcome(
                 [fl EXCEPT
                    !.pc = "done",
                    !.stored = Append(@, stored.result.id),
                    !.response =
                        [status_code |-> 200,
                         conversation_id |-> fl.conversation,
                         message |-> assistant_message[1],
                         tool_calls |-> Head(fl.agent_result).tool_calls]],
                 stored.st, runner)))

\* what a step produced for the request's owner, and whether it left the
\* rows of the other owners as they were
Essence(o, before, user_id) ==
    [step |-> o.flight.pc,
     flight |-> Without(o.flight, {"delta", "seen", "alone"}),
     rows |-> Rows(OwnerOnly(o.st, user_id)),
     foreign_kept |-> Foreign(o.st, user_id) = Foreign(before, user_id)]

Active(fl) == fl.pc \notin {"idle", "done", "failed"}

\* A step of request f.  `o` is where the step leaves it, `a` where the
\* same step leaves it when the session holds the owner's rows only and
\* the singleton is new.  The step waits while a row it changes is locked
\* by another request; a request that ends commits or rolls back.
FlightStep(f, o, a) ==
    LET user_id == o.flight.request.user_id
        before == Session(st, db, flights[f].delta)
        delta == Diff(Rows(o.st), db)
    IN  /\ steps < MaxFlightSteps
        /\ \A g \in Slots \ {f} : \A t \in Tables :
               delta.removed[t] \cap flights[g].delta.removed[t] = {}
        /\ o.st.task_seq <= MaxTasks + 1
        /\ steps' = steps + 1
        /\ db' = IF o.flight.pc = "done" THEN Rows(o.st) ELSE db
        /\ st' = [o.st EXCEPT !.tasks = db'.tasks,
                              !.conversations = db'.conversations,
                              !.messages = db'.messages]
        /\ _mock_runner' = o.runner
        /\ flights' =
               [flights EXCEPT ![f] =
                   [o.flight EXCEPT
                      !.delta = IF Active(o.flight) THEN delta ELSE NoDelta,
                      !.seen = Essence(o, before, user_id),
                      !.alone = Essence(a, OwnerOnly(before, user_id),
                                        user_id)]]
        /\ UNCHANGED << OPENAI_API_KEY, pc, request, conversation,
                       messages, run, engine_calls, engine_replies, turn,
                       db_before, call, issued, served, todo >>

\* a step of chat taken by request f
Proceed(f, step(_, _, _)) ==
    \E fl \in {flights[f]} :
    \E session \in {Session(st, db, fl.delta)} :
    \E o \in {step(fl, session, _mock_runner)} :
    \E a \in {step(fl, OwnerOnly(session, fl.request.user_id), None)} :
        FlightStep(f, o, a)

\* a request arrives and is served by the lowest free slot
Begin(f, user_id, message, conversation_id) ==
    /\ ~Active(flights[f])
    /\ \A g \in Slots : g < f => Active(flights[g])
    /\ \E fl \in {[NoFlight EXCEPT
                     !.request = [user_id |-> user_id, message |-> message,
                                  conversation_id |-> conversation_id]]} :
       \E o \in {chat_begin(fl, st, _mock_runner)} :
       \E a \in {chat_begin(fl, OwnerOnly(st, user_id), None)} :
           FlightStep(f, o, a)

Answer(f, response) ==
    /\ flights[f].pc = "reasoning"
    /\ Proceed(f, LAMBDA fl, session, runner :
                      chat_run(fl, session, runner, response))

EngineFails(f, error) ==
    /\ flights[f].pc = "reasoning"
    /\ Proceed(f, LAMBDA fl, session, runner :
                      chat_run_raised(fl, session, runner, error))

StoreUser(f) ==
    /\ flights[f].pc = "store_user"
    /\ Proceed(f, chat_store_user)

TouchUser(f) ==
    /\ flights[f].pc = "touch_user"
    /\ Proceed(f, chat_touch_user)

ReplyAndCommit(f) ==
    /\ flights[f].pc = "store_reply"
    /\ Proceed(f, chat_reply_and_commit)

\* u1 goes on with conversation 1, u2 opens a conversation
ConcurrentRequests ==
    {[user_id |-> "u1", message |-> msg_list, conversation_id |-> Some(1)],
     [user_id |-> "u2", message |-> msg_list, conversation_id |-> None]}

ConcurrentErrors == {err_rate}

ConcurrentNext ==
    \/ \E f \in Slots, req \in ConcurrentRequests :
           Begin(f, req.user_id, req.message, req.conversation_id)
    \/ \E f \in Slots, response \in ReplayResponses : Answer(f, response)
    \/ \E f \in Slots, error \in ConcurrentErrors : EngineFails(f, error)
    \/ \E f \in Slots : StoreUser(f)
    \/ \E f \in Slots : TouchUser(f)
    \/ \E f \in Slots : ReplyAndCommit(f)

\* the next step of a request that is served alone
Then(o, step(_, _, _)) == step(o.flight, o.st, o.runner)

\* an earlier turn of u1, answered by the engine with a text, has left
\* conversation 1 and its two messages
FirstTurn ==
    Then(Then(Then(Then(
        chat_begin([NoFlight EXCEPT !.request.message = msg_list],
                   EmptyStore, None),
        LAMBDA fl, session, runner :
            chat_run(fl, session, runner,
                     [content |-> Some(<< "Done." >>),
                      tool_calls |-> << >>])),
        chat_store_user), chat_touch_user), chat_reply_and_commit)

ConcurrentInit ==
    /\ OPENAI_API_KEY = TRUE
    /\ db = Rows(FirstTurn.st)
    /\ st = FirstTurn.st
    /\ Quiet

ConcurrentSpec == ConcurrentInit /\ [][ConcurrentNext]_vars

(***************************************************************************)
(* The conversation service used on its own, as its tests use it: any      *)
(* caller, any conversation id, within one database session.  created_at   *)
(* of a message is datetime.utcnow() read when the row is built; the       *)
(* clock has a finite resolution, so a call may read the very instant the  *)
(* call before it read (`stalled`).                                        *)
(***************************************************************************)
ServiceConversationIds == {1, 2}

Roles == {"user", "assistant", "system"}

Contents == {msg_hello}

Limits == {1, HISTORY_LIMIT}

ServiceCall(op, user_id, conversation_id, role, content, limit, out) ==
    [op |-> op, user_id |-> user_id, conversation_id |-> conversation_id,
     role |-> role, content |-> content, limit |-> limit, before |-> st,
     raised |-> out.raised, exc |-> out.exc, result |-> out.result,
     stored |-> IF op = "store_message" /\ ~out.raised
                THEN Append(served.stored, out.result.id)
                ELSE served.stored]

ServiceUnchanged ==
    UNCHANGED << OPENAI_API_KEY, db, _mock_runner, pc, steps, request,
                 conversation, messages, run, engine_calls, engine_replies,
                 turn, db_before, call, issued, todo,
                 flights >>

GetOrCreateConversation(user_id, conversation_id) ==
    \E out \in {get_or_create_conversation(st, user_id, conversation_id)} :
        /\ out.st.conversation_seq <= MaxConversations + 1
        /\ st' = out.st
        /\ served' = ServiceCall("get_or_create_conversation", user_id,
                                 conversation_id, "user", << >>, 0, out)
        /\ ServiceUnchanged

StoreMessage(conversation_id, user_id, role, content, stalled) ==
    \E out \in {store_message(st, conversation_id, user_id, role, content)} :
        /\ out.st.message_seq <= MaxMessages + 1
        /\ stalled => ~out.raised
        /\ st' = IF stalled THEN [out.st EXCEPT !.clock = st.clock]
                 ELSE out.st
        /\ served' = ServiceCall("store_message", user_id,
                                 Some(conversation_id), role, content, 0, out)
        /\ ServiceUnchanged

GetConversationMessages(conversation_id, user_id, limit) ==
    \E ordered \in CreatedDescOrders({m \in st.messages :
                                         m.conversation_id = conversation_id}) :
    \E out \in {get_conversation_messages_selected(st, conversation_id,
                     user_id, Limit(ordered, limit))} :
        /\ st' = out.st
        /\ served' = ServiceCall("get_conversation_messages", user_id,
                                 Some(conversation_id), "user", << >>, limit,
                                 out)
        /\ ServiceUnchanged

ConversationNext ==
    \/ \E user_id \in Users,
          conversation_id \in
              {None} \cup {Some(n) : n \in ServiceConversationIds} :
           GetOrCreateConversation(user_id, conversation_id)
    \/ \E conversation_id \in ServiceConversationIds, user_id \in Users,
          role \in Roles, content \in Contents, stalled \in BOOLEAN :
           StoreMessage(conversation_id, user_id, role, content, stalled)
    \/ \E conversation_id \in ServiceConversationIds, user_id \in Users,
          limit \in Limits :
           GetConversationMessages(conversation_id, user_id, limit)

ConversationSpec == RegistryInit /\ [][ConversationNext]_vars

(***************************************************************************)
(* The conversation service as the owner of many conversations uses it:    *)
(* conversations are opened, receive messages, are listed and deleted,     *)
(* within one database session.                                            *)
(***************************************************************************)
DEFAULT_LIST_LIMIT == 20

ListLimits == {1, DEFAULT_LIST_LIMIT}

ListedConversationIds == 1..MaxListed

OpenConversation(user_id) ==
    \E out \in {get_or_create_conversation(st, user_id, None)} :
        /\ out.st.conversation_seq <= MaxListed + 1
        /\ st' = out.st
        /\ served' = ServiceCall("get_or_create_conversation", user_id,
                                 None, "user", << >>, 0, out)
        /\ ServiceUnchanged

AppendMessage(conversation_id, user_id, content) ==
    \E out \in {store_message(st, conversation_id, user_id, "user", content)} :
        /\ out.st.message_seq <= MaxAppended + 1
        /\ st' = out.st
        /\ served' = ServiceCall("store_message", user_id,
                                 Some(conversation_id), "user", content, 0, out)
        /\ ServiceUnchanged

ListUserConversations(user_id, limit) ==
    \E ordered \in UpdatedDescOrders(st.conversations) :
    \E out \in {list_user_conversations(st, user_id, limit, ordered)} :
        /\ st' = out.st
        /\ served' = ServiceCall("list_user_conversations", user_id, None,
                                 "user", << >>, limit, out)
        /\ ServiceUnchanged

DeleteConversation(conversation_id, user_id) ==
    \E out \in {delete_conversation(st, conversation_id, user_id)} :
        /\ st' = out.st
        /\ served' = ServiceCall("delete_conversation", user_id,
                                 Some(conversation_id), "user", << >>, 0, out)
        /\ ServiceUnchanged

ListingNext ==
    \/ \E user_id \in Users : OpenConversation(user_id)
    \/ \E conversation_id \in ListedConversationIds, user_id \in Users,
          content \in Contents :
           AppendMessage(conversation_id, user_id, content)
    \/ \E user_id \in Users, limit \in ListLimits :
           ListUserConversations(user_id, limit)
    \/ \E conversation_id \in ListedConversationIds, user_id \in Users :
           DeleteConversation(conversation_id, user_id)

ListingSpec == RegistryInit /\ [][ListingNext]_vars

(***************************************************************************)
(* The console application's TodoService used on its own, as its unit      *)
(* tests use it: one service object, any method, any argument.             *)
(***************************************************************************)
Xs(n) == [i \in 1..n |-> "x"]

\* titles on both sides of every rule: empty, blank, padded, of exactly
\* 100 characters, of 101 characters, and of 101 characters of which one
\* is a trailing blank
TodoTitles ==
    { << >>, << " ", " " >>, << " ", "a", "b", " " >>, Xs(TODO_TITLE_MAX),
      Xs(TODO_TITLE_MAX + 1), Xs(TODO_TITLE_MAX) \o << " " >> }

TodoDescriptions == { << "d", " " >> }

TodoIds == {1, 2}

TodoCall(op, task_id, title, description, completed, out) ==
    [service |-> out.st,
     calls |-> todo.calls + 1,
     last |-> [op |-> op, task_id |-> task_id, title |-> title,
               description |-> description, completed |-> completed,
               before |-> todo.service,
               raised |-> out.raised, exc |-> out.exc, result |-> out.result],
     created |-> IF op # "create" THEN todo.created
                 ELSE IF out.raised THEN Append(todo.created, 0)
                 ELSE Append(todo.created, out.result.task[1].id)]

TodoUnchanged ==
    UNCHANGED << OPENAI_API_KEY, db, st, _mock_runner, pc, steps, request,
                 conversation, messages, run, engine_calls, engine_replies,
                 turn, db_before, call, issued, served, flights >>

Create(title, description) ==
    /\ todo.calls < MaxTodoCalls
    /\ todo' = TodoCall("create", 0, Some(title), Some(description), None,
                        TodoService_create(todo.service, title, description))
    /\ TodoUnchanged

Update(task_id, title, description, completed) ==
    /\ todo.calls < MaxTodoCalls
    /\ todo' = TodoCall("update", task_id, title, description, completed,
                        TodoService_update(todo.service, task_id, title,
                                           description, completed))
    /\ TodoUnchanged

ToggleComplete(task_id) ==
    /\ todo.calls < MaxTodoCalls
    /\ todo' = TodoCall("toggle_complete", task_id, None, None, None,
                        TodoService_toggle_complete(todo.service, task_id))
    /\ TodoUnchanged

Delete(task_id) ==
    /\ todo.calls < MaxTodoCalls
    /\ todo' = TodoCall("delete", task_id, None, None, None,
                        TodoService_delete(todo.service, task_id))
    /\ TodoUnchanged

TodoNext ==
    \/ \E title \in TodoTitles, description \in TodoDescriptions :
           Create(title, description)
    \/ \E task_id \in TodoIds,
          title \in {None} \cup {Some(t) : t \in TodoTitles},
          description \in {None} \cup {Some(d) : d \in TodoDescriptions},
          completed \in {None, Some(TRUE)} :
           Update(task_id, title, description, completed)
    \/ \E task_id \in TodoIds : ToggleComplete(task_id)
    \/ \E task_id \in TodoIds : Delete(task_id)

TodoSpec == RegistryInit /\ [][TodoNext]_vars

(***************************************************************************)
(* Properties of the orchestration loop.  A run has ended when pc is no    *)
(* longer "reasoning"; engine_replies then holds every answer the engine   *)
(* gave during it.                                                         *)
(***************************************************************************)

\* C1: a run whose engine requested at least one tool call on every
\* reasoning step ends after exactly max_iterations reasoning calls with
\* the budget-exceeded outcome: the fixed apology, the marker
\* error = max_iterations_reached and iterations = max_iterations.
C1_AlwaysToolBudget ==
    ( /\ pc # "reasoning"
      /\ engine_replies # << >>
      /\ \A i \in DOMAIN engine_replies :
            /\ ~engine_replies[i].raised
            /\ engine_replies[i].response.tool_calls # << >> )
    => /\ run.returned
       /\ Len(engine_calls) = MAX_ITERATIONS
       /\ run.result.assistant_message = Some(BUDGET_MESSAGE)
       /\ "error" \in DOMAIN run.result
       /\ run.result.error = "max_iterations_reached"
       /\ run.result.iterations = MAX_ITERATIONS

\* C2: a run never makes more than max_iterations reasoning calls, and a
\* run whose engine never failed ends either on its first response without
\* tool requests, the k-th, returning that response's text with
\* iterations = k and no budget marker, or with its budget used up: it
\* never stops earlier, where a later text response was still to come.
C2_BoundedAndDone ==
    /\ Len(engine_calls) <= MAX_ITERATIONS
    /\ ( /\ pc # "reasoning"
         /\ engine_replies # << >>
         /\ \A i \in DOMAIN engine_replies : ~engine_replies[i].raised )
       => LET k == Len(engine_replies)
              last == engine_replies[k].response
          IN  IF last.tool_calls = << >>
              THEN /\ run.returned
                   /\ run.result.assistant_message = last.content
                   /\ run.result.iterations = k
                   /\ "error" \notin DOMAIN run.result
              ELSE k = MAX_ITERATIONS

\* C3: every tool call the loop dispatches reaches the registry with the
\* turn's authenticated owner as user_id, whatever user_id the engine put
\* in the arguments, and a turn never touches another owner's tasks.
C3_OwnerInjected ==
    /\ \A i \in DOMAIN run.registry_log :
          run.registry_log[i].kwargs.user_id = request.user_id
    /\ {t \in st.tasks : t.user_id # request.user_id}
           = {t \in db_before.tasks : t.user_id # request.user_id}

\* the engine named another owner and the task was created for the turn's
C3_Witness ==
    /\ \E k \in DOMAIN engine_replies :
          \E c \in DOMAIN engine_replies[k].response.tool_calls :
             LET arguments ==
                     engine_replies[k].response.tool_calls[c].function.arguments
             IN  /\ arguments.valid
                 /\ "user_id" \in DOMAIN arguments.value
                 /\ arguments.value.user_id # request.user_id
    /\ \E i \in DOMAIN run.registry_log :
          /\ run.registry_log[i].tool = "add_task"
          /\ ~run.registry_log[i].raised
          /\ \E t \in st.tasks \ db_before.tasks :
                /\ t.id = run.registry_log[i].result.task_id
                /\ t.user_id = request.user_id

\* C4: a committed turn never holds the effect of the same request twice:
\* when the fallback responder handled the message, no add_task it applied
\* repeats, with the same title, an add_task the loop had already applied
\* in the same turn before the reasoning engine failed.
C4_AppliedOnce ==
    ( /\ pc = "done"
      /\ turn.fallback
      /\ engine_replies # << >>
      /\ engine_replies[Len(engine_replies)].raised )
    => \A i \in DOMAIN run.registry_log, j \in DOMAIN turn.dispatched :
          ~ ( /\ run.registry_log[i].tool = "add_task"
              /\ turn.dispatched[j].tool = "add_task"
              /\ ~run.registry_log[i].raised
              /\ ~turn.dispatched[j].raised
              /\ run.registry_log[i].kwargs.title
                     = turn.dispatched[j].kwargs.title
              /\ \E t1, t2 \in db.tasks \ db_before.tasks :
                    /\ t1.id = run.registry_log[i].result.task_id
                    /\ t2.id = turn.dispatched[j].result.task_id
                    /\ t1.id # t2.id )

\* C5: after a reasoning step that requested tool calls, every one of them
\* has reached the registry, in request order, and the message array ends
\* with one tool-result entry per requested call, whether or not a call
\* failed.
C5_AllToolCallsExecuted ==
    LET k == Len(engine_replies)
    IN  (k > 0 /\ ~engine_replies[k].raised)
        => LET calls == engine_replies[k].response.tool_calls
               n == Len(calls)
               m == Len(run.full_messages)
               d == Len(run.registry_log)
           IN  /\ d >= n
               /\ m >= n
               /\ \A i \in 1..n :
                     /\ run.registry_log[d - n + i].tool
                            = calls[i].function.name
                     /\ run.full_messages[m - n + i].role = "tool"
                     /\ run.full_messages[m - n + i].tool_call_id
                            = calls[i].id

\* C6: within one run the message array is append-only: the array of
\* reasoning call k+1 is the array of call k followed by the engine's
\* tool-call request of step k and one tool-result entry per requested
\* call, in request order; the array the loop holds extends the last one
\* sent, and the first one sent is the system prompt and the conversation.
C6_AppendOnly ==
    /\ \A k \in 1..(Len(engine_calls) - 1) :
          LET a == engine_calls[k]
              b == engine_calls[k + 1]
              calls == engine_replies[k].response.tool_calls
          IN  /\ Len(calls) > 0
              /\ Len(b) = Len(a) + 1 + Len(calls)
              /\ SubSeq(b, 1, Len(a)) = a
              /\ b[Len(a) + 1].role = "assistant"
              /\ Len(b[Len(a) + 1].tool_calls) = Len(calls)
              /\ \A i \in DOMAIN calls :
                    /\ b[Len(a) + 1].tool_calls[i].id = calls[i].id
                    /\ b[Len(a) + 1].tool_calls[i].function = calls[i].function
                    /\ b[Len(a) + 1 + i].role = "tool"
                    /\ b[Len(a) + 1 + i].tool_call_id = calls[i].id
                    /\ b[Len(a) + 1 + i].name = calls[i].function.name
    /\ engine_calls # << >>
       => LET a == engine_calls[Len(engine_calls)]
          IN  /\ Len(a) <= Len(run.full_messages)
              /\ SubSeq(run.full_messages, 1, Len(a)) = a
              /\ Len(engine_calls[1]) = 1 + Len(messages)
              /\ engine_calls[1][1].role = "system"
              /\ SubSeq(engine_calls[1], 2, Len(engine_calls[1])) = messages

\* a third reasoning call after a step that requested two tool calls
C6_Witness ==
    /\ Len(engine_calls) >= 3
    /\ \E k \in 1..(Len(engine_calls) - 1) :
          Len(engine_replies[k].response.tool_calls) = 2

\* C7: on both terminal outcomes of a run, Done and budget exceeded, the
\* returned tool_calls list holds exactly one record (tool name, arguments
\* with the injected owner, result) per tool call the registry executed
\* during the run, in execution order.
C7_AuditTrail ==
    run.returned
    => /\ Len(run.result.tool_calls) = Len(run.registry_log)
       /\ \A i \in DOMAIN run.registry_log :
             /\ ~run.registry_log[i].raised
             /\ run.result.tool_calls[i].tool = run.registry_log[i].tool
             /\ run.result.tool_calls[i].arguments
                    = run.registry_log[i].kwargs
             /\ run.result.tool_calls[i].arguments.user_id = request.user_id
             /\ run.result.tool_calls[i].result = run.registry_log[i].result

\* the budget ran out after tool calls on every step, one of them changing
\* the task store and one returning an error result
C7_Witness ==
    /\ run.returned
    /\ "error" \in DOMAIN run.result
    /\ Len(run.result.tool_calls) > MAX_ITERATIONS
    /\ \E i \in DOMAIN run.result.tool_calls :
          "error" \in DOMAIN run.result.tool_calls[i].result
    /\ \E i \in DOMAIN run.result.tool_calls :
          "task_id" \in DOMAIN run.result.tool_calls[i].result

\* C8: a failed turn persists nothing (the committed rows are those of the
\* turn's beginning: no message, no new conversation, no task effect), and
\* in every committed state a user message and its assistant reply are
\* present together.
C8_FailedTurnPersistsNothing ==
    /\ pc = "failed" => db = db_before
    /\ pc = "reasoning" => db = db_before
    /\ \A m \in db.messages :
          /\ m.role = "user"
             => \E a \in db.messages :
                   /\ a.role = "assistant"
                   /\ a.conversation_id = m.conversation_id
                   /\ a.id = m.id + 1
          /\ m.role = "assistant"
             => \E u \in db.messages :
                   /\ u.role = "user"
                   /\ u.conversation_id = m.conversation_id
                   /\ u.id = m.id - 1

\* a turn with a new conversation and an executed add_task fails while the
\* assistant message is stored, after the user message was stored
C8_Witness ==
    /\ pc = "failed"
    /\ request.conversation_id = None
    /\ turn.exc.type = "IntegrityError"
    /\ \E i \in DOMAIN run.registry_log :
          /\ run.registry_log[i].tool = "add_task"
          /\ ~run.registry_log[i].raised
    /\ st.message_seq > 1
    /\ db.messages = {}

\* C9: when a reasoning call fails, the turn is diverted to the fallback
\* responder if and only if the failure text contains "quota" or "rate"
\* (case-insensitive) or "429"; a diverted turn completes with a reply and
\* is committed, every other one fails.
C9_CapacityDiverts ==
    ( /\ pc \in {"done", "failed"}
      /\ engine_replies # << >>
      /\ engine_replies[Len(engine_replies)].raised )
    => LET text == engine_replies[Len(engine_replies)].error
           marked == \/ contains(lower(text), kw_quota)
                     \/ contains(lower(text), kw_rate)
                     \/ contains(text, kw_429)
       IN  /\ turn.fallback <=> marked
           /\ marked => /\ pc = "done"
                        /\ turn.response.status_code = 200
                        /\ turn.response.message # << >>
                        /\ \E a \in db.messages \ db_before.messages :
                              /\ a.role = "assistant"
                              /\ a.content = turn.response.message
           /\ ~marked => /\ pc = "failed"
                         /\ turn.response.status_code = 500

\* an engine failure whose only marker is "429" was answered by the fallback
C9_Witness ==
    /\ pc = "done"
    /\ turn.fallback
    /\ engine_replies # << >>
    /\ engine_replies[Len(engine_replies)].raised
    /\ engine_replies[Len(engine_replies)].error = err_429
    /\ Len(engine_replies) > 1

\* C10: the fallback responder runs in a turn only when a reasoning call of
\* that turn failed with a capacity-class failure.
C10_FallbackOnlyOnEngineFailure ==
    turn.fallback
    => /\ engine_replies # << >>
       /\ engine_replies[Len(engine_replies)].raised
       /\ LET text == engine_replies[Len(engine_replies)].error
          IN  \/ contains(lower(text), kw_quota)
              \/ contains(lower(text), kw_rate)
              \/ contains(text, kw_429)

(***************************************************************************)
(* Properties of the chat endpoint's error handling.                       *)
(***************************************************************************)

\* C11: no outcome of the chat endpoint shows the client the text of an
\* exception of the reasoning engine or of the orchestration: a turn that
\* fails after its conversation was found or created answers with the
\* fixed generic message only, whatever the type of the exception.
C11_OnlyGenericError ==
    (pc = "failed" /\ conversation # 0)
    => turn.response = [status_code |-> 500, detail |-> GENERIC_ERROR]

(***************************************************************************)
(* Properties of the fallback responder.  `call` is the record of its      *)
(* last invocation: the message, the session before it, the registry calls *)
(* it made and its reply.                                                  *)
(***************************************************************************)

\* C12: one invocation of the fallback responder makes at most one call
\* of the tool registry, whatever the message and whatever the tool
\* returned, and reports at most one tool call.
C12_AtMostOneToolCall ==
    call.caller = "fallback"
    => /\ Len(call.dispatched) <= 1
       /\ Len(call.tool_calls) <= Len(call.dispatched)

\* a message with keywords of two buckets made one registry call, which
\* changed the task store
C12_Witness ==
    /\ call.caller = "fallback"
    /\ call.message = msg_add_help
    /\ Len(call.dispatched) = 1
    /\ st.tasks # call.before.tasks

\* C13: the fallback responder handles the message with the first bucket,
\* in the order add, list, complete, delete, update, help, one of whose
\* keywords occurs in the lowercased message, and with that bucket only: a
\* registry call it makes is that bucket's tool, a reply without a
\* registry call is that bucket's question or text, and a message without
\* any keyword gets a default reply and no tool call.
C13_FirstBucketOnly ==
    call.caller = "fallback"
    => LET m == lower(call.message)
           bucket ==
               IF AnyKeyword(ADD_KEYWORDS, m) THEN "add"
               ELSE IF AnyKeyword(LIST_KEYWORDS, m) THEN "list"
               ELSE IF AnyKeyword(COMPLETE_KEYWORDS, m) THEN "complete"
               ELSE IF AnyKeyword(DELETE_KEYWORDS, m) THEN "delete"
               ELSE IF AnyKeyword(UPDATE_KEYWORDS, m) THEN "update"
               ELSE IF AnyKeyword(HELP_KEYWORDS, m) THEN "help"
               ELSE "none"
           tool == CASE bucket = "add" -> "add_task"
                     [] bucket = "list" -> "list_tasks"
                     [] bucket = "complete" -> "complete_task"
                     [] bucket = "delete" -> "delete_task"
                     [] bucket = "update" -> "update_task"
                     [] OTHER -> "no tool"
           questions ==
               CASE bucket = "add" ->
                      {"I'd be happy to add a task! Could you please tell me what you'd like to add?"}
                 [] bucket = "complete" ->
                      {"Which task would you like to mark as complete? Please provide the task number (e.g., 'Complete task 1')."}
                 [] bucket = "delete" ->
                      {"Which task would you like to delete? Please provide the task number (e.g., 'Delete task 1')."}
                 [] bucket = "update" ->
                      {"Which task would you like to update? Please provide the task number and new description (e.g., 'Update task 1 to buy milk and bread').",
                       "What would you like to change task "}
                 [] bucket = "help" ->
                      {"AI Task Assistant - Available Commands"}
                 [] bucket = "none" ->
                      {DEFAULT_RESPONSES[i] : i \in 1..Len(DEFAULT_RESPONSES)}
                 [] OTHER -> {}
       IN  /\ \A i \in DOMAIN call.dispatched :
                call.dispatched[i].tool = tool
           /\ bucket = "list" => Len(call.dispatched) = 1
           /\ call.dispatched = << >>
              => /\ call.reply[1] \in questions
                 /\ call.tool_calls = << >>
                 /\ st = call.before
           /\ bucket \in {"help", "none"} => call.dispatched = << >>

\* "delete all tasks" holds a keyword of the list bucket and one of the
\* delete bucket: its tasks were listed and nothing was deleted
C13_Witness ==
    /\ call.caller = "fallback"
    /\ call.message = msg_delete_all
    /\ Len(call.dispatched) = 1
    /\ call.dispatched[1].tool = "list_tasks"
    /\ call.before.tasks # {}
    /\ st.tasks = call.before.tasks

\* C14: when the fallback responder cannot extract the arguments of the
\* bucket that handles the message (complete, delete, update: no task
\* number or the number 0; add, update: no text or a text shorter than 3
\* characters), it replies with that bucket's clarifying question, calls no
\* tool and leaves the task store unchanged.
C14_ClarifyWithoutGuessing ==
    call.caller = "fallback"
    => LET m == lower(call.message)
           bucket ==
               IF AnyKeyword(ADD_KEYWORDS, m) THEN "add"
               ELSE IF AnyKeyword(LIST_KEYWORDS, m) THEN "list"
               ELSE IF AnyKeyword(COMPLETE_KEYWORDS, m) THEN "complete"
               ELSE IF AnyKeyword(DELETE_KEYWORDS, m) THEN "delete"
               ELSE IF AnyKeyword(UPDATE_KEYWORDS, m) THEN "update"
               ELSE "other"
           number == ExtractTaskId(m)
           new_text == SearchAltThenTail(m, << kw_to, kw_into, kw_as >>)
           add_text == ExtractAddDescription(m)
           no_number == number = None \/ number[1] = 0
           no_text(found) == found = None \/ Len(strip(found[1])) < 3
           question ==
               CASE bucket = "add" ->
                      "I'd be happy to add a task! Could you please tell me what you'd like to add?"
                 [] bucket = "complete" ->
                      "Which task would you like to mark as complete? Please provide the task number (e.g., 'Complete task 1')."
                 [] bucket = "delete" ->
                      "Which task would you like to delete? Please provide the task number (e.g., 'Delete task 1')."
                 [] bucket = "update" /\ no_number ->
                      "Which task would you like to update? Please provide the task number and new description (e.g., 'Update task 1 to buy milk and bread')."
                 [] bucket = "update" /\ ~no_number ->
                      "What would you like to change task "
                 [] OTHER -> "no question"
           failed ==
               \/ bucket \in {"complete", "delete", "update"} /\ no_number
               \/ bucket = "update" /\ no_text(new_text)
               \/ bucket = "add" /\ no_text(add_text)
       IN  failed
           => /\ call.reply[1] = question
              /\ call.dispatched = << >>
              /\ call.tool_calls = << >>
              /\ st = call.before

\* "edit task 2 to ab" from the owner of task 2: the new text is too short,
\* the reply asks for it and task 2 is as it was
C14_Witness ==
    /\ call.caller = "fallback"
    /\ call.message = msg_edit_short
    /\ \E t \in call.before.tasks : t.id = 2 /\ t.user_id = call.user_id
    /\ call.reply[1] = "What would you like to change task "
    /\ st = call.before

\* C15: when the fallback responder handles a complete, delete or update
\* message that names task number n (with a new text, for update) and the
\* owner has no task n, also when n is another owner's task, the reply
\* says task n could not be found, reports no tool call, and no task of
\* any owner is created, modified or deleted.
C15_NotFoundChangesNothing ==
    call.caller = "fallback"
    => LET m == lower(call.message)
           bucket ==
               IF AnyKeyword(ADD_KEYWORDS, m) THEN "add"
               ELSE IF AnyKeyword(LIST_KEYWORDS, m) THEN "list"
               ELSE IF AnyKeyword(COMPLETE_KEYWORDS, m) THEN "complete"
               ELSE IF AnyKeyword(DELETE_KEYWORDS, m) THEN "delete"
               ELSE IF AnyKeyword(UPDATE_KEYWORDS, m) THEN "update"
               ELSE "other"
           number == ExtractTaskId(m)
           new_text == SearchAltThenTail(m, << kw_to, kw_into, kw_as >>)
           named ==
               /\ bucket \in {"complete", "delete", "update"}
               /\ number # None
               /\ number[1] # 0
               /\ bucket = "update"
                  => new_text # None /\ Len(strip(new_text[1])) >= 3
       IN  ( /\ named
             /\ ~ \E t \in call.before.tasks :
                     t.id = number[1] /\ t.user_id = call.user_id )
           => /\ Len(call.reply) = 2 + Len(int_str(number[1]))
              /\ call.reply[1] = "I couldn't find task "
              /\ SubSeq(call.reply, 2, Len(call.reply) - 1)
                     = int_str(number[1])
              /\ call.tool_calls = << >>
              /\ st.tasks = call.before.tasks

\* "update task 1 to walk dog" from a user while task 1 is another user's:
\* not found, and the other user's task keeps its title
C15_Witness ==
    /\ call.caller = "fallback"
    /\ call.message = msg_update
    /\ \E t \in call.before.tasks : t.id = 1 /\ t.user_id # call.user_id
    /\ call.reply[1] = "I couldn't find task "
    /\ \E t \in st.tasks : t.id = 1 /\ t.title = buy_milk

(***************************************************************************)
(* Properties of the tools, over every sequence of registry calls.         *)
(* `call.dispatched[1]` is the last call with its result, `call.before`    *)
(* the session it was made in, `st` the session after it.                  *)
(***************************************************************************)

\* C16: after any sequence of tool calls, every task id that a successful
\* add_task returned to owner A is listed exactly once by
\* list_tasks(A, status = all) as long as delete_task has not reported it
\* deleted, and is never listed, under any status, for another owner.
C16_ListedOnceForOwnerOnly ==
    \A a \in issued.added :
        LET entries(user_id, status) ==
                LET listed == execute_mcp_tool("list_tasks", st,
                                  [user_id |-> user_id,
                                   status |-> status]).result.list
                IN  {i \in DOMAIN listed : listed[i].id = a.task_id}
        IN  /\ a.task_id \notin issued.deleted
               => Cardinality(entries(a.user_id, "all")) = 1
            /\ \A other \in Users \ {a.user_id} :
                  \A status \in {"all", "pending", "completed"} :
                      entries(other, status) = {}

\* both owners were given a task id, one of the two tasks was deleted since
\* and the other completed
C16_Witness ==
    /\ \E a, b \in issued.added :
          /\ a.user_id # b.user_id
          /\ a.task_id \in issued.deleted
          /\ b.task_id \notin issued.deleted
          /\ \E t \in st.tasks : t.id = b.task_id /\ t.completed
    /\ call.caller = "direct"

\* C17 as stated: complete_task, delete_task and update_task called by an
\* owner with the id of another owner's task always return not_found, the
\* result an id that does not exist gets, and leave that task unchanged.
C17_ForeignTaskAlwaysNotFound ==
    ( /\ call.caller = "direct"
      /\ call.dispatched[1].tool
             \in {"complete_task", "delete_task", "update_task"} )
    => LET d == call.dispatched[1]
       IN  \A t \in call.before.tasks :
              (t.id = d.kwargs.task_id /\ t.user_id # d.kwargs.user_id)
              => /\ ~d.raised
                 /\ "error" \in DOMAIN d.result
                 /\ d.result.error = "not_found"
                 /\ d.result
                        = execute_mcp_tool(d.tool,
                              [call.before EXCEPT !.tasks = @ \ {t}],
                              d.kwargs).result
                 /\ t \in st.tasks
                 /\ st.tasks = call.before.tasks

\* C17, amended: such a call always returns the result that the same call
\* gets for an id that does not exist, never a success and never a result
\* of another kind; that result is not_found unless the call is an
\* update_task with neither title nor description, which is a
\* validation_error in both cases; the other owner's task is unchanged.
C17_ForeignTaskLooksAbsent ==
    ( /\ call.caller = "direct"
      /\ call.dispatched[1].tool
             \in {"complete_task", "delete_task", "update_task"} )
    => LET d == call.dispatched[1]
           nothing_to_update ==
               /\ d.tool = "update_task"
               /\ "title" \notin DOMAIN d.kwargs
               /\ "description" \notin DOMAIN d.kwargs
       IN  \A t \in call.before.tasks :
              (t.id = d.kwargs.task_id /\ t.user_id # d.kwargs.user_id)
              => /\ ~d.raised
                 /\ "error" \in DOMAIN d.result
                 /\ d.result.error = IF nothing_to_update
                                     THEN "validation_error"
                                     ELSE "not_found"
                 /\ d.result
                        = execute_mcp_tool(d.tool,
                              [call.before EXCEPT !.tasks = @ \ {t}],
                              d.kwargs).result
                 /\ t \in st.tasks
                 /\ st.tasks = call.before.tasks

\* update_task with a new title and description for another owner's
\* completed task: not_found, and the task is as it was
C17_Witness ==
    /\ call.caller = "direct"
    /\ call.dispatched[1].tool = "update_task"
    /\ "title" \in DOMAIN call.dispatched[1].kwargs
    /\ \E t \in st.tasks :
          /\ t.id = call.dispatched[1].kwargs.task_id
          /\ t.user_id # call.dispatched[1].kwargs.user_id
          /\ t.completed
          /\ t.title = buy_milk
    /\ "error" \in DOMAIN call.dispatched[1].result
    /\ call.dispatched[1].result.error = "not_found"

\* C18: delete_task called by the owner with an id add_task gave that owner
\* never raises; while the task exists it returns status deleted with the
\* title the task had, and from then on the task is in no list_tasks
\* result of any owner under any status; called again it returns not_found
\* and changes nothing.
C18_DeleteThenNotFound ==
    /\ \A id \in issued.deleted :
          \A user_id \in Users, status \in {"all", "pending", "completed"} :
             LET listed == execute_mcp_tool("list_tasks", st,
                               [user_id |-> user_id,
                                status |-> status]).result.list
             IN  \A i \in DOMAIN listed : listed[i].id # id
    /\ ( /\ call.caller = "direct"
         /\ call.dispatched[1].tool = "delete_task"
         /\ [task_id |-> call.dispatched[1].kwargs.task_id,
             user_id |-> call.dispatched[1].kwargs.user_id]
                \in issued.added )
       => LET d == call.dispatched[1]
              existing == {t \in call.before.tasks :
                              t.id = d.kwargs.task_id}
          IN  /\ ~d.raised
              /\ existing # {}
                 => /\ d.result
                        = [task_id |-> d.kwargs.task_id,
                           status |-> "deleted",
                           title |-> (CHOOSE t \in existing : TRUE).title]
                    /\ st.tasks = call.before.tasks \ existing
                    /\ d.kwargs.task_id \in issued.deleted
              /\ existing = {}
                 => /\ d.kwargs.task_id \in issued.deleted
                    /\ d.result = TaskNotFoundResult(d.kwargs.task_id)
                    /\ st = call.before

\* the owner's second delete_task for a task that was deleted, while
\* another task exists
C18_Witness ==
    /\ call.caller = "direct"
    /\ call.dispatched[1].tool = "delete_task"
    /\ [task_id |-> call.dispatched[1].kwargs.task_id,
        user_id |-> call.dispatched[1].kwargs.user_id] \in issued.added
    /\ call.dispatched[1].kwargs.task_id \in issued.deleted
    /\ "error" \in DOMAIN call.dispatched[1].result
    /\ call.dispatched[1].result.error = "not_found"
    /\ st.tasks # {}

\* C19: tool inputs are checked against the declared schema before the
\* store is touched: an add_task or update_task whose title is shorter
\* than 1 or longer than 200 characters is answered with an error and
\* creates or modifies nothing, so no task with such a title exists after
\* any sequence of tool calls.
C19_TitleWithinSchema ==
    /\ \A t \in st.tasks :
          /\ Len(t.title) >= TITLE_MIN_LENGTH
          /\ Len(t.title) <= TITLE_MAX_LENGTH
    /\ ( /\ call.caller = "direct"
         /\ call.dispatched[1].tool \in {"add_task", "update_task"}
         /\ "title" \in DOMAIN call.dispatched[1].kwargs
         /\ \/ Len(call.dispatched[1].kwargs.title) < TITLE_MIN_LENGTH
            \/ Len(call.dispatched[1].kwargs.title) > TITLE_MAX_LENGTH )
       => /\ "error" \in DOMAIN call.dispatched[1].result
          /\ st = call.before

\* C20: update_task called with neither title nor description returns the
\* validation_error result and changes nothing, the same whether the task
\* id exists, does not exist or is another owner's.
C20_NothingToUpdate ==
    ( /\ call.caller = "direct"
      /\ call.dispatched[1].tool = "update_task"
      /\ "title" \notin DOMAIN call.dispatched[1].kwargs
      /\ "description" \notin DOMAIN call.dispatched[1].kwargs )
    => /\ ~call.dispatched[1].raised
       /\ call.dispatched[1].result
              = ErrorResult("validation_error", txt_update_fields)
       /\ st = call.before

\* such a call for a task id that was deleted, while the caller owns
\* another task and the other owner none
C20_Witness ==
    /\ call.caller = "direct"
    /\ call.dispatched[1].tool = "update_task"
    /\ "title" \notin DOMAIN call.dispatched[1].kwargs
    /\ call.dispatched[1].kwargs.task_id \in issued.deleted
    /\ \E t \in st.tasks : t.user_id = call.dispatched[1].kwargs.user_id
    /\ \A t \in st.tasks : t.user_id = call.dispatched[1].kwargs.user_id
    /\ call.dispatched[1].result.error = "validation_error"

(***************************************************************************)
(* Properties of the task store's fields and lists (UpdateSpec for the     *)
(* fields an update leaves alone, RegistrySpec for the others).            *)
(***************************************************************************)
\* C21: a successful update_task changes only the supplied fields of the
\* addressed task: the title stays when no title was supplied, the
\* description stays when no description was supplied, the id, the owner,
\* the completed flag and the creation time never change, and every other
\* task is left as it was.
C21_OnlySuppliedFieldsChange ==
    ( /\ call.caller = "direct"
      /\ call.dispatched[1].tool = "update_task"
      /\ ~call.dispatched[1].raised
      /\ "status" \in DOMAIN call.dispatched[1].result )
    => LET kwargs == call.dispatched[1].kwargs
           old == FindTask(call.before, kwargs.task_id, kwargs.user_id)
           new == FindTask(st, kwargs.task_id, kwargs.user_id)
       IN  /\ call.dispatched[1].result.status = "updated"
           /\ Cardinality(old) = 1
           /\ Cardinality(new) = 1
           /\ st.tasks \ new = call.before.tasks \ old
           /\ \A t \in old, u \in new :
                /\ u.id = t.id
                /\ u.user_id = t.user_id
                /\ u.completed = t.completed
                /\ u.created_at = t.created_at
                /\ "title" \notin DOMAIN kwargs => u.title = t.title
                /\ "title" \in DOMAIN kwargs => u.title = kwargs.title
                /\ "description" \notin DOMAIN kwargs
                       => u.description = t.description
                /\ "description" \in DOMAIN kwargs
                       => u.description = kwargs.description

\* a title-only update of a completed task that has a description, made
\* while the store holds another task
C21_Witness ==
    /\ call.caller = "direct"
    /\ call.dispatched[1].tool = "update_task"
    /\ ~call.dispatched[1].raised
    /\ "status" \in DOMAIN call.dispatched[1].result
    /\ DOMAIN call.dispatched[1].kwargs = {"user_id", "task_id", "title"}
    /\ Cardinality(st.tasks) = 2
    /\ \E t \in call.before.tasks, u \in st.tasks :
          /\ t.id = call.dispatched[1].kwargs.task_id
          /\ u.id = t.id
          /\ t.completed
          /\ t.description = Some(a_description)
          /\ u.description = Some(a_description)
          /\ t.title # walk_dog
          /\ u.title = walk_dog

\* C22: every successful complete_task and update_task refreshes the
\* task's updated_at: after the call it is later than it was before.
C22_UpdatedAtRefreshed ==
    ( /\ call.caller = "direct"
      /\ call.dispatched[1].tool \in {"complete_task", "update_task"}
      /\ ~call.dispatched[1].raised
      /\ "status" \in DOMAIN call.dispatched[1].result )
    => \A t \in call.before.tasks, u \in st.tasks :
           (t.id = call.dispatched[1].kwargs.task_id /\ u.id = t.id)
           => u.updated_at > t.updated_at

\* C23: for every owner, whatever calls were made, list_tasks(pending) and
\* list_tasks(completed) have no entry in common and together hold exactly
\* the entries of list_tasks(all); a task just added is in the pending
\* list, and a task just completed is in the completed list and not in
\* the pending one.
C23_PendingAndCompletedPartitionAll ==
    \A user_id \in Users :
        LET Listed(status) ==
                execute_mcp_tool("list_tasks", st,
                    [user_id |-> user_id, status |-> status]).result.list
            Entries(list) == {list[i] : i \in 1..Len(list)}
            Ids(list) == {list[i].id : i \in 1..Len(list)}
            all == Listed("all")
            pending == Listed("pending")
            completed == Listed("completed")
            last == call.dispatched[1]
        IN  /\ Ids(pending) \cap Ids(completed) = {}
            /\ Entries(pending) \cup Entries(completed) = Entries(all)
            /\ Len(pending) + Len(completed) = Len(all)
            /\ Cardinality(Ids(all)) = Len(all)
            /\ ( /\ call.caller = "direct"
                 /\ call.user_id = user_id
                 /\ ~last.raised
                 /\ "status" \in DOMAIN last.result )
               => /\ last.result.status = "created"
                     => /\ last.result.task_id \in Ids(pending)
                        /\ last.result.task_id \notin Ids(completed)
                  /\ last.result.status = "completed"
                     => /\ last.result.task_id \in Ids(completed)
                        /\ last.result.task_id \notin Ids(pending)

\* complete_task has just succeeded for an owner who now has one
\* completed and one pending task
C23_Witness ==
    /\ call.caller = "direct"
    /\ call.dispatched[1].tool = "complete_task"
    /\ ~call.dispatched[1].raised
    /\ "status" \in DOMAIN call.dispatched[1].result
    /\ \E t \in st.tasks, u \in st.tasks :
          /\ t.user_id = call.user_id
          /\ t.id = call.dispatched[1].result.task_id
          /\ t.completed
          /\ u.user_id = call.user_id
          /\ ~u.completed

\* C24: a tool name outside the catalog makes the dispatch raise the
\* unknown-tool ValueError: no result is returned (so none of
\* validation_error, not_found, internal_error), no tool runs and the
\* task store is as it was.
C24_UnknownToolRaises ==
    ( /\ call.caller = "direct"
      /\ call.dispatched[1].tool \notin _tools )
    => LET d == call.dispatched[1]
           out == execute_mcp_tool(d.tool, call.before, d.kwargs)
       IN  /\ d.raised
           /\ d.result = NoResult
           /\ out.raised
           /\ out.exc = Exc("ValueError", txt_unknown_tool \o Chars[d.tool])
           /\ out.st = call.before
           /\ st = call.before

\* rate_task has been dispatched for the owner of a stored task
C24_Witness ==
    /\ call.caller = "direct"
    /\ call.dispatched[1].tool = "rate_task"
    /\ call.dispatched[1].raised
    /\ \E t \in st.tasks :
          /\ t.user_id = call.user_id
          /\ t.id = call.dispatched[1].kwargs.task_id

(***************************************************************************)
(* Storage failures (FailureSpec).                                         *)
(***************************************************************************)
\* C25: when the storage fails during one of the five tool operations the
\* tool returns an internal_error result with a message (list_tasks: a
\* list holding that one result) and raises nothing; the loop that
\* dispatched the call records the result and goes on.  An update_task
\* without fields is refused before the storage is used.
C25_StorageFailureIsAResult ==
    ( /\ call.caller \in {"direct", "loop"}
      /\ ~call.before.connected )
    => /\ Len(call.dispatched) = 1
       /\ call.dispatched[1].tool \in _tools
       /\ ~call.dispatched[1].raised
       /\ LET d == call.dispatched[1]
              result == IF d.tool = "list_tasks"
                        THEN IF Len(d.result.list) = 1 THEN d.result.list[1]
                             ELSE [error |-> "none", message |-> << >>]
                        ELSE d.result
          IN  /\ DOMAIN result = {"error", "message"}
              /\ result.message # << >>
              /\ result.error =
                     IF d.tool = "update_task"
                        /\ DOMAIN d.kwargs = {"user_id", "task_id"}
                     THEN "validation_error"
                     ELSE "internal_error"
              /\ call.caller = "loop"
                 => call.tool_calls =
                        << ToolCallRecord(d.tool, d.kwargs, d.result) >>
       /\ st = call.before

\* the loop has dispatched add_task on a session that lost its connection
\* while it held a task, and has recorded the tool's result
C25_Witness ==
    /\ ~call.before.connected
    /\ call.before.tasks # {}
    /\ call.caller = "loop"
    /\ call.dispatched # << >>
    /\ call.dispatched[1].tool = "add_task"
    /\ call.tool_calls # << >>
    /\ call.tool_calls[1].result = StorageFailure

(***************************************************************************)
(* Properties of the conversation service (ConversationSpec).              *)
(***************************************************************************)
\* C26: get_or_create_conversation with an id returns the conversation of
\* that id when the caller owns it; otherwise it raises, with the same
\* error whether the id belongs to another user or to nobody, and creates
\* nothing.  Without an id it creates a conversation that is owned by the
\* caller and has no messages.
C26_ConversationOfCallerOrNone ==
    served.op = "get_or_create_conversation"
    => LET before == served.before
           owned == {c \in before.conversations :
                        /\ served.conversation_id # None
                        /\ c.id = served.conversation_id[1]
                        /\ c.user_id = served.user_id}
           absent == [before EXCEPT
                        !.conversations =
                            {c \in @ : << c.id >> # served.conversation_id}]
       IN  IF served.conversation_id = None
           THEN /\ ~served.raised
                /\ served.result \notin before.conversations
                /\ st.conversations =
                       before.conversations \cup {served.result}
                /\ served.result.user_id = served.user_id
                /\ \A c \in before.conversations :
                       c.id # served.result.id
                /\ \A m \in st.messages :
                       m.conversation_id # served.result.id
                /\ st.messages = before.messages
           ELSE IF owned # {}
           THEN /\ ~served.raised
                /\ owned = {served.result}
                /\ st = before
           ELSE /\ served.raised
                /\ served.result = NoResult
                /\ served.exc =
                       get_or_create_conversation(absent, served.user_id,
                           served.conversation_id).exc
                /\ served.exc.type = "ValueError"
                /\ st = before

\* a user has asked for the conversation of another user, which holds a
\* message
C26_Witness ==
    /\ served.op = "get_or_create_conversation"
    /\ served.conversation_id # None
    /\ served.raised
    /\ \E c \in st.conversations :
          /\ c.id = served.conversation_id[1]
          /\ c.user_id # served.user_id
          /\ \E m \in st.messages : m.conversation_id = c.id

\* C27: store_message with a role other than user and assistant, or with
\* the id of a conversation that does not exist or belongs to another
\* user, raises and stores nothing: the messages and every conversation
\* (its updated_at too) are as before the call.
C27_RejectedStoreChangesNothing ==
    ( /\ served.op = "store_message"
      /\ \/ served.role \notin {"user", "assistant"}
         \/ \A c \in served.before.conversations :
                c.id = served.conversation_id[1]
                => c.user_id # served.user_id )
    => /\ served.raised
       /\ served.exc.type = "ValueError"
       /\ st.messages = served.before.messages
       /\ st.conversations = served.before.conversations
       /\ st.message_seq = served.before.message_seq

\* a user has tried to store a message in the conversation of another
\* user, which holds a message
C27_Witness ==
    /\ served.op = "store_message"
    /\ served.role = "assistant"
    /\ served.raised
    /\ \E c \in st.conversations :
          /\ c.id = served.conversation_id[1]
          /\ c.user_id # served.user_id
          /\ \E m \in st.messages : m.conversation_id = c.id

\* C28: get_conversation_messages with a limit that is not smaller than
\* the number of messages stored in the conversation returns exactly the
\* messages stored in it, role and content, in the order of the
\* store_message calls.
C28_RoundTripInCallOrder ==
    ( /\ served.op = "get_conversation_messages"
      /\ ~served.raised )
    => LET stored == SelectSeq(served.stored, LAMBDA id :
                         \E m \in st.messages :
                             /\ m.id = id
                             /\ m.conversation_id = served.conversation_id[1])
           Stored(i) == CHOOSE m \in st.messages : m.id = stored[i]
       IN  Len(stored) <= served.limit
           => served.result.list =
                  [i \in 1..Len(stored) |->
                      [role |-> Stored(i).role, content |-> Stored(i).content]]

\* C29: for a conversation holding n messages, get_conversation_messages
\* with limit L returns min(n, L) messages, and they are the last
\* min(n, L) messages stored in the conversation, the oldest of them
\* first.
C29_LastMessagesOldestFirst ==
    ( /\ served.op = "get_conversation_messages"
      /\ ~served.raised )
    => LET stored == SelectSeq(served.stored, LAMBDA id :
                         \E m \in st.messages :
                             /\ m.id = id
                             /\ m.conversation_id = served.conversation_id[1])
           n == Len(stored)
           k == IF n < served.limit THEN n ELSE served.limit
           Stored(i) == CHOOSE m \in st.messages : m.id = stored[i]
       IN  /\ Len(served.result.list) = k
           /\ \A i \in 1..k :
                /\ i <= Len(served.result.list)
                /\ served.result.list[i] =
                       [role |-> Stored(n - k + i).role,
                        content |-> Stored(n - k + i).content]

\* C30: messages of a conversation that have the same created_at are
\* returned in the order of their ids on every read: the result is the
\* end of the conversation's messages ordered by created_at and then by
\* id, whether or not the limit cuts between two such messages.
C30_TiesInInsertionOrder ==
    ( /\ served.op = "get_conversation_messages"
      /\ ~served.raised )
    => LET rows == {m \in st.messages :
                       m.conversation_id = served.conversation_id[1]}
           Rank(m) == Cardinality({x \in rows :
                          \/ x.created_at < m.created_at
                          \/ x.created_at = m.created_at /\ x.id <= m.id})
           n == Cardinality(rows)
           k == IF n < served.limit THEN n ELSE served.limit
           Replayed(i) == CHOOSE m \in rows : Rank(m) = i
       IN  (\E a, b \in rows : a.id # b.id /\ a.created_at = b.created_at)
           => served.result.list =
                  [i \in 1..k |->
                      [role |-> Replayed(n - k + i).role,
                       content |-> Replayed(n - k + i).content]]

(***************************************************************************)
(* Properties of listing and deleting conversations (ListingSpec).         *)
(* `served` is the last call: its arguments, the session before it         *)
(* (`served.before`) and its result; `st` is the session after it.         *)
(***************************************************************************)

C32_DeleteOwnedWithMessagesOrNothing ==
    (served.op = "delete_conversation") =>
        LET id == served.conversation_id[1]
            owned == {c \in served.before.conversations :
                         c.id = id /\ c.user_id = served.user_id}
        IN  /\ ~served.raised
            /\ served.result.deleted = (owned # {})
            /\ st.conversations = served.before.conversations \ owned
            /\ st.messages =
                   {m \in served.before.messages :
                       owned = {} \/ m.conversation_id # id}
            /\ st.tasks = served.before.tasks

\* a conversation holding two messages is deleted while the other
\* conversation stays
C32_Witness ==
    /\ served.op = "delete_conversation"
    /\ served.result.deleted
    /\ Cardinality({m \in served.before.messages :
                       m.conversation_id = served.conversation_id[1]}) = 2
    /\ st.conversations # {}
    /\ st.messages = {}

\* C40: in every state reached through get_or_create_conversation,
\* store_message and delete_conversation, each stored message refers to a
\* stored conversation and has that conversation's owner.
C40_NoOrphanNoForeignMessage ==
    \A m \in st.messages :
        \E c \in st.conversations :
            /\ c.id = m.conversation_id
            /\ c.user_id = m.user_id

\* a conversation with a message has just been deleted while a message of
\* the other owner's conversation is still stored
C40_Witness ==
    /\ served.op = "delete_conversation"
    /\ served.result.deleted
    /\ \E m \in served.before.messages :
           /\ m.conversation_id = served.conversation_id[1]
           /\ \E n \in st.messages : n.user_id # m.user_id

(***************************************************************************)
(* Properties of the console application's TodoService (TodoSpec).         *)
(* `todo.last` is the last call with the service before it                 *)
(* (`todo.last.before`); `todo.service` is the service after it.           *)
(***************************************************************************)

\* C35: the k-th successful create returns id k, whatever creates were
\* rejected and whatever was updated, toggled or deleted in between; no
\* stored task has an id that a later create can return.
C35_KthCreateReturnsK ==
    LET returned == SelectSeq(todo.created, LAMBDA id : id # 0)
    IN  /\ \A k \in 1..Len(returned) : returned[k] = k
        /\ todo.service._next_id = Len(returned) + 1
        /\ \A t \in todo.service._tasks : t.id \in 1..Len(returned)
        /\ \A t \in todo.service._tasks, u \in todo.service._tasks :
               t.id = u.id => t = u

\* the second successful create returns 2 although task 1 has been
\* deleted and a create was rejected in between
C35_Witness ==
    /\ todo.created = << 1, 0, 2 >>
    /\ todo.last.op = "create"
    /\ todo.last.before._tasks = {}
    /\ \E t \in todo.service._tasks : t.id = 2

\* C36: update called with a title that is empty, blank or longer than
\* 100 characters raises ValueError and leaves the stored task as it was,
\* also when a description or a completed value comes with it (as stated:
\* the length is that of the title as passed).
C36_InvalidTitleRejected ==
    (/\ todo.last.op = "update"
     /\ todo.last.title # None
     /\ TodoService_get(todo.last.before, todo.last.task_id) # {}
     /\ \/ strip(todo.last.title[1]) = << >>
        \/ Len(todo.last.title[1]) > TODO_TITLE_MAX)
        => /\ todo.last.raised
           /\ todo.last.exc.type = "ValueError"
           /\ todo.service._tasks = todo.last.before._tasks

\* C36 (amended): the same, with the length taken after surrounding
\* whitespace is stripped; a title that is longer than 100 characters
\* only because of surrounding whitespace is accepted and stored
\* stripped.
C36_InvalidStrippedTitleRejected ==
    /\ (/\ todo.last.op = "update"
         /\ todo.last.title # None
         /\ TodoService_get(todo.last.before, todo.last.task_id) # {}
         /\ \/ strip(todo.last.title[1]) = << >>
            \/ Len(strip(todo.last.title[1])) > TODO_TITLE_MAX)
            => /\ todo.last.raised
               /\ todo.last.exc.type = "ValueError"
               /\ todo.service._tasks = todo.last.before._tasks
    /\ (/\ todo.last.op = "update"
         /\ todo.last.title # None
         /\ TodoService_get(todo.last.before, todo.last.task_id) # {}
         /\ strip(todo.last.title[1]) # << >>
         /\ Len(strip(todo.last.title[1])) <= TODO_TITLE_MAX)
            => /\ ~todo.last.raised
               /\ \E t \in todo.service._tasks :
                      /\ t.id = todo.last.task_id
                      /\ t.title = strip(todo.last.title[1])

\* an update carrying a title of 101 characters together with a
\* description and a completed value has been rejected
C36_Witness ==
    /\ todo.last.op = "update"
    /\ todo.last.raised
    /\ todo.last.title = Some(Xs(TODO_TITLE_MAX + 1))
    /\ todo.last.description # None
    /\ todo.last.completed # None
    /\ \E t \in todo.service._tasks :
           /\ t.id = todo.last.task_id
           /\ ~t.completed

(***************************************************************************)
(* Properties of the committed chat turn (Spec).  `turn` is how the last   *)
(* turn ended, `db_before` and `db` the committed rows before and after    *)
(* it, `run.registry_log` the tool calls of the loop and `turn.dispatched` *)
(* those of the fallback responder.                                        *)
(***************************************************************************)

\* C37: every chat turn that completes without error, whether it ends
\* with the engine's final text, the budget-exceeded message or a fallback
\* reply, appends exactly two messages to its conversation: first the
\* user's message, then one assistant message whose content is the reply
\* returned to the caller.  A turn whose run ended on the budget is
\* committed like any other, with the effects of the tool calls it made.
C37_TurnAppendsUserThenReply ==
    /\ (pc = "done") =>
           LET appended == db.messages \ db_before.messages
           IN  /\ turn.committed
               /\ turn.response.status_code = 200
               /\ db_before.messages \subseteq db.messages
               /\ \E u \in appended, a \in appended :
                      /\ appended = {u, a}
                      /\ a.id = u.id + 1
                      /\ u.created_at <= a.created_at
                      /\ \A m \in db_before.messages : m.id < u.id
                      /\ u.conversation_id = conversation
                      /\ a.conversation_id = conversation
                      /\ turn.response.conversation_id = conversation
                      /\ u.role = "user"
                      /\ u.content = request.message
                      /\ a.role = "assistant"
                      /\ a.content = turn.response.message
    /\ (pc \in {"done", "failed"} /\ run.returned
            /\ "error" \in DOMAIN run.result) =>
           /\ pc = "done"
           /\ turn.response.message = BUDGET_MESSAGE
           /\ turn.response.tool_calls = run.result.tool_calls
           /\ db.tasks = st.tasks
           /\ \A i \in DOMAIN run.registry_log :
                  run.registry_log[i].tool = "add_task"
                      => \E t \in db.tasks :
                             t.id = run.registry_log[i].result.task_id

\* a turn that ran out of budget after adding tasks has been committed
\* with its two messages
C37_Witness ==
    /\ pc = "done"
    /\ run.returned
    /\ "error" \in DOMAIN run.result
    /\ turn.response.message = BUDGET_MESSAGE
    /\ db.tasks # db_before.tasks
    /\ Cardinality(db.messages \ db_before.messages) = 2

\* C38: for every chat turn that commits, the tool_calls list returned to
\* the caller holds a record (same tool, same result) for every tool
\* invocation of the turn that changed the task store, whether the loop
\* or the fallback responder made it, also when the fallback takes over
\* after the loop already executed tools.
C38_AuditCoversCommittedEffects ==
    (pc = "done" /\ turn.committed) =>
        LET made == run.registry_log \o turn.dispatched
            audit == turn.response.tool_calls
        IN  \A k \in DOMAIN made :
                (/\ made[k].tool \in {"add_task", "complete_task",
                                       "delete_task", "update_task"}
                 /\ ~made[k].raised
                 /\ "error" \notin DOMAIN made[k].result)
                    => \E i \in DOMAIN audit :
                           /\ audit[i].tool = made[k].tool
                           /\ audit[i].result = made[k].result

(***************************************************************************)
(* Properties of turns that follow one another (ReplaySpec).               *)
(* `engine_calls[1]` is the message array of the first reasoning call of   *)
(* the turn, `db_before` the committed rows when the turn began.           *)
(***************************************************************************)

\* C39: the message array given to the engine at the start of a turn is
\* the system prompt, then the conversation's stored messages in replay
\* order (creation time, ties in insertion order; at most the 50 most
\* recent), then the new user message; every earlier turn's user message
\* is directly followed by its reply, and no tool-call or tool-result
\* entry of an earlier turn appears.
C39_EngineSeesReplayThenNewMessage ==
    (engine_calls # << >>) =>
        LET a == engine_calls[1]
            stored == {m \in db_before.messages :
                          m.conversation_id = conversation}
            n == Cardinality(stored)
            k == IF n < HISTORY_LIMIT THEN n ELSE HISTORY_LIMIT
        IN  /\ Len(a) = k + 2
            /\ a[1] = [role |-> "system", content |-> SYSTEM_PROMPT]
            /\ a[k + 2] = [role |-> "user", content |-> request.message]
            /\ \A i \in 1..k :
                   \E m \in stored :
                       /\ Cardinality({x \in stored : x.id < m.id})
                              = n - k + i - 1
                       /\ a[i + 1] = [role |-> m.role, content |-> m.content]
            /\ \A i \in 1..(k \div 2) :
                   /\ a[2 * i].role = "user"
                   /\ a[2 * i + 1].role = "assistant"

\* C33: chat turns of different owners under way at the same time do not
\* affect each other: whatever the other requests have done, every step of
\* a turn leaves the turn's locals (message array, tool calls, reply,
\* response) and its owner's tasks, conversations and messages exactly as
\* it would with a store that holds the owner's rows only and a mock
\* runner nobody has used, and it leaves the other owners' rows alone; on
\* the engine path and on the fallback path.
C33_TurnUnaffectedByOtherOwners ==
    \A f \in Slots : flights[f].seen = flights[f].alone

\* C33: a turn of one owner ended on the fallback path while a turn of
\* another owner, which has added a task through the engine path, is
\* still under way, and the committed rows hold a conversation of each
C33_Witness ==
    \E f \in Slots, g \in Slots :
        /\ flights[f].request.user_id # flights[g].request.user_id
        /\ flights[f].pc = "done"
        /\ flights[f].fallback
        /\ _mock_runner # None
        /\ Active(flights[g])
        /\ flights[g].run.tool_calls_made # << >>
        /\ flights[g].delta.added.tasks # {}

\* C34: nothing serializes two turns on one conversation: no turn is
\* refused, whatever the other turn has stored in the conversation in the
\* meantime, and a turn that has ended has committed its user message and
\* its reply, in this order
C34_ConcurrentTurnsBothCommit ==
    \A f \in Slots :
        /\ flights[f].pc # "failed"
        /\ flights[f].pc = "done" =>
               /\ Len(flights[f].stored) = 2
               /\ \E u \in db.messages, r \in db.messages :
                      /\ u.id = flights[f].stored[1]
                      /\ r.id = flights[f].stored[2]
                      /\ u.conversation_id = flights[f].conversation
                      /\ r.conversation_id = flights[f].conversation
                      /\ u.role = "user"
                      /\ r.role = "assistant"
                      /\ u.created_at < r.created_at

\* C34: two turns on conversation 1 have both committed and the
\* conversation replays as user1, user2, reply1, reply2
C34_Witness ==
    \E f \in Slots, g \in Slots :
        /\ f # g
        /\ flights[f].pc = "done"
        /\ flights[g].pc = "done"
        /\ flights[f].conversation = 1
        /\ flights[g].conversation = 1
        /\ \E u1 \in db.messages, u2 \in db.messages,
              r1 \in db.messages, r2 \in db.messages :
               /\ << u1.id, r1.id >> = flights[f].stored
               /\ << u2.id, r2.id >> = flights[g].stored
               /\ u1.created_at < u2.created_at
               /\ u2.created_at < r1.created_at
               /\ r1.created_at < r2.created_at

====
